---- MODULE Spec2Model ----
(***************************************************************************)
(* ModelSpec Harness: the run submission endpoint (app/api/run/route.ts,   *)
(* POST), the rule engine it calls (lib/evaluator.ts) and the registry     *)
(* check (lib/providerModels.ts).                                          *)
(*                                                                         *)
(* Strings that the code inspects character by character (responses,      *)
(* fields, phrases) are sequences of one-character strings; identifiers    *)
(* that the code only compares for equality (model ids, case ids, rule     *)
(* ids) are TLA+ strings.                                                  *)
(***************************************************************************)
EXTENDS Integers, Sequences, FiniteSets, TLC

VARIABLES
    env,              \* process.env flags read by isRunsPersistenceEnabled
    pc,               \* position of POST: "idle", "awaitJobs", "reporting", "responded"
    req,              \* the request body (NoReq before a request arrives)
    run,              \* POST's locals fixed by validation (concurrency, verifierMode, ...)
    jobs,             \* one record per limit(async () => ...) call, in submission order
    queue,            \* p-limit's queue: indices of jobs not yet admitted
    activeCount,      \* p-limit's activeCount
    rows,             \* collector rows
    violationsJsonl,  \* collector violationsJsonl
    jobErrors,        \* collector jobErrors
    bundle,           \* the RunBundle (NoBundle until built)
    rendered,         \* reporters called so far
    writeCalls,       \* names passed to safeWriteRunFile, in call order
    files,            \* runs/<runId>/: file name -> content tag
    response,         \* the NextResponse returned (NoResponse until returned)
    fnIn,             \* argument of the pure function under test
    fnOut,            \* its result
    disk,             \* the file system as lib/storage.ts sees it: directories and files
    call              \* the lib/storage.ts call in progress, or the last one made

vars == <<env, pc, req, run, jobs, queue, activeCount, rows, violationsJsonl,
          jobErrors, bundle, rendered, writeCalls, files, response, fnIn, fnOut,
          disk, call>>

storeVars == <<disk, call>>

runVars == <<env, pc, req, run, jobs, queue, activeCount, rows, violationsJsonl,
             jobErrors, bundle, rendered, writeCalls, files, response>>

(***************************************************************************)
(* Bounds of the model.                                                    *)
(***************************************************************************)
MaxJobs == 2
MaxFaults == 2
MaxViolations == 3
MaxIdLen == 3
MaxNameLen == 3

\* rows in a list handed to the reporters
MaxRows == 3

\* configured fields of a required_fields rule, phrases of the other rules
MaxFields == 3

\* the largest max_words limit
MaxWords == 2

\* entries of a submitted rate card
MaxRates == 2

\* entries of totals.byModel handed to the report summaries
MaxModels == 2

(***************************************************************************)
(* Strings.                                                                *)
(***************************************************************************)
ToLowerChar(ch) ==
    CASE ch = "I" -> "i"
      [] ch = "D" -> "d"
      [] ch = "O" -> "o"
      [] ch = "K" -> "k"
      [] OTHER -> ch

toLowerCase(s) == [i \in 1..Len(s) |-> ToLowerChar(s[i])]

IsSpace(ch) == ch = " "

\* String.prototype.includes
includes(h, n) ==
    \E i \in 0..(Len(h) - Len(n)) : \A k \in 1..Len(n) : h[i + k] = n[k]

\* String.prototype.trim
RECURSIVE trimStart(_)
trimStart(s) ==
    IF s # <<>> /\ IsSpace(Head(s)) THEN trimStart(Tail(s)) ELSE s

RECURSIVE trimEnd(_)
trimEnd(s) ==
    IF s # <<>> /\ IsSpace(s[Len(s)]) THEN trimEnd(SubSeq(s, 1, Len(s) - 1)) ELSE s

trim(s) == trimEnd(trimStart(s))

includesInsensitive(haystack, needle) ==
    LET h == toLowerCase(haystack)
        n == toLowerCase(needle)
    IN  IF n = <<>> THEN FALSE ELSE includes(h, n)

\* the pieces between spaces, counted without trimming or dropping empty pieces
countWords_NoTrim(text) == Cardinality({i \in 1..Len(text) : IsSpace(text[i])}) + 1

\* s.split(/\s+/).filter(Boolean).length: the maximal runs of non-space characters
countWords(text) ==
    LET s == trim(text)
    IN  IF s = <<>> THEN 0
        ELSE Cardinality({i \in 1..Len(s) :
                 /\ ~IsSpace(s[i])
                 /\ (i = 1 \/ IsSpace(s[i - 1]))})

Digits == <<"0", "1", "2", "3", "4", "5", "6", "7", "8", "9">>

\* String(n) for a natural number n
RECURSIVE String(_)
String(n) ==
    IF n < 10 THEN <<Digits[n + 1]>> ELSE String(n \div 10) \o <<Digits[(n % 10) + 1]>>

(***************************************************************************)
(* Rule engine (lib/evaluator.ts).                                         *)
(***************************************************************************)
Severities == {"critical", "high", "medium", "low"}

Violation(rule, evidence) ==
    [rule_id |-> rule.id, severity |-> rule.severity, evidence |-> evidence]

\* the first configured field the response lacks, as a sequence of at most one element
RECURSIVE FirstMissing(_, _)
FirstMissing(resp, fields) ==
    IF fields = <<>> THEN <<>>
    ELSE IF ~includesInsensitive(resp, Head(fields)) THEN <<Head(fields)>>
    ELSE FirstMissing(resp, Tail(fields))

\* phrases.find(...): the first configured phrase the response contains
RECURSIVE FirstHit(_, _)
FirstHit(resp, phrases) ==
    IF phrases = <<>> THEN <<>>
    ELSE IF includesInsensitive(resp, Head(phrases)) THEN <<Head(phrases)>>
    ELSE FirstHit(resp, Tail(phrases))

RuleViolations(rule, ctx, resp, wc) ==
    CASE rule.type = "required_fields" ->
            LET miss == FirstMissing(resp, rule.fields)
            IN  IF miss # <<>> THEN <<Violation(rule, miss[1])>> ELSE <<>>
      [] rule.type = "forbidden_phrases" ->
            LET hit == FirstHit(resp, rule.phrases)
            IN  IF hit # <<>> /\ hit[1] # <<>> THEN <<Violation(rule, hit[1])>> ELSE <<>>
      [] rule.type = "must_admit_unknown" ->
            IF rule.trigger # <<>> /\ includesInsensitive(ctx, rule.trigger)
            THEN LET required == rule.required_phrase_any
                     ok == \E i \in 1..Len(required) : includesInsensitive(resp, required[i])
                 IN  IF ~ok /\ Len(required) > 0
                     THEN <<Violation(rule, rule.trigger)>> ELSE <<>>
            ELSE <<>>
      [] rule.type = "max_words" ->
            IF rule.max_words # 0 /\ wc > rule.max_words
            THEN <<Violation(rule, String(wc))>> ELSE <<>>
      [] OTHER -> <<>>

RECURSIVE CheckRules(_, _, _, _)
CheckRules(rules, ctx, resp, wc) ==
    IF rules = <<>> THEN <<>>
    ELSE RuleViolations(Head(rules), ctx, resp, wc) \o CheckRules(Tail(rules), ctx, resp, wc)

localRuleChecks(spec, c, responseText) ==
    LET resp == responseText
        ctx == c.task \o <<" ">> \o c.context
        wc == countWords(resp)
    IN  CheckRules(spec.rules, ctx, resp, wc)

summarizePass_NoViolations(violations) == violations = <<>>

summarizePass(violations) ==
    ~(\E i \in 1..Len(violations) : violations[i].severity = "critical")

(***************************************************************************)
(* Schemas (lib/schemas.ts) and the YAML documents a request may carry.    *)
(***************************************************************************)
RuleTypes == {"required_fields", "forbidden_phrases", "must_admit_unknown", "max_words"}

\* a rule as written in the YAML document: "" / <<>> / 0 stand for an absent key
RawRule(id, type, severity) ==
    [id |-> id, type |-> type, severity |-> severity, fields |-> <<>>, phrases |-> <<>>,
     trigger |-> <<>>, required_phrase_any |-> <<>>, max_words |-> 0]

RuleRequiresId ==
    [RawRule("needs_id", "required_fields", "critical") EXCEPT !.fields = << <<"i", "d">> >>]

RuleBrief ==
    [RawRule("brief", "max_words", "") EXCEPT !.max_words = 2]

RuleUnknownType == RawRule("custom", "regex_match", "high")

YamlDocs ==
    {"{id: s1, rules: [", "{id: s1, rules: []}", "{id: s1, rules: [{id: custom, type: regex_match}]}",
     "{id: s1, rules: [needs_id, brief]}"}

\* yaml.load: ok = FALSE when it throws
yamlLoad(text) ==
    CASE text = "{id: s1, rules: []}" ->
            [ok |-> TRUE, obj |-> [id |-> "s1", rules |-> <<>>]]
      [] text = "{id: s1, rules: [{id: custom, type: regex_match}]}" ->
            [ok |-> TRUE, obj |-> [id |-> "s1", rules |-> <<RuleUnknownType>>]]
      [] text = "{id: s1, rules: [needs_id, brief]}" ->
            [ok |-> TRUE, obj |-> [id |-> "s1", rules |-> <<RuleRequiresId, RuleBrief>>]]
      [] OTHER -> [ok |-> FALSE, obj |-> [id |-> "", rules |-> <<>>]]

RuleSchemaOk(r) ==
    /\ r.id # ""
    /\ r.type \in RuleTypes
    /\ r.severity \in Severities \cup {""}
    /\ r.max_words >= 0

\* RuleSchema's .default("medium")
RuleSchemaData(r) == [r EXCEPT !.severity = IF r.severity = "" THEN "medium" ELSE r.severity]

\* SpecSchema.safeParse
SpecSchemaParse(obj) ==
    LET success == /\ obj.id # ""
                   /\ Len(obj.rules) >= 1
                   /\ \A i \in 1..Len(obj.rules) : RuleSchemaOk(obj.rules[i])
    IN  [success |-> success,
         data |-> [id |-> obj.id,
                   rules |-> IF success
                             THEN [i \in 1..Len(obj.rules) |-> RuleSchemaData(obj.rules[i])]
                             ELSE <<>>]]

\* CaseSchema.safeParse(...).success
CaseSchemaOk(c) == c.id # "" /\ Len(c.task) >= 1

(***************************************************************************)
(* Model registry (lib/providerModels.ts).                                 *)
(***************************************************************************)
MODEL_REGISTRY ==
    <<"openai:gpt-4.1-mini", "openai:gpt-4o-mini",
      "groq:llama-3.1-70b-versatile", "groq:llama-3.1-8b-instant">>

DEFAULT_AUDITOR_MODEL_ID == "openai:gpt-4o-mini"

InRegistry_AcceptAll(id) == TRUE

\* assertRegistryModelId does not throw
InRegistry(id) == \E i \in 1..Len(MODEL_REGISTRY) : MODEL_REGISTRY[i] = id

(***************************************************************************)
(* Request normalisation (route.ts).                                       *)
(***************************************************************************)
\* safeString(x).trim() on the identifier strings a request may carry
trimId(s) ==
    CASE s = " openai:gpt-4o-mini " -> "openai:gpt-4o-mini"
      [] s = " " -> ""
      [] OTHER -> s

RECURSIVE Dedup(_, _)
Dedup(seq, seen) ==
    IF seq = <<>> THEN <<>>
    ELSE IF Head(seq) \in seen THEN Dedup(Tail(seq), seen)
    ELSE <<Head(seq)>> \o Dedup(Tail(seq), seen \cup {Head(seq)})

normalizeModels(models) ==
    LET trimmed == [i \in 1..Len(models) |-> trimId(models[i])]
        nonEmpty == SelectSeq(trimmed, LAMBDA m : m # "")
    IN  Dedup(nonEmpty, {})

normalizeVerifierMode_AlwaysAudit(v) == "llm_auditor"

normalizeVerifierMode(v) ==
    LET s == trimId(v)
    IN  IF s = "local_only" THEN "local_only"
        ELSE IF s = "tinker" THEN "llm_auditor"
        ELSE "llm_auditor"

Min(a, b) == IF a < b THEN a ELSE b
Max(a, b) == IF a > b THEN a ELSE b

\* Math.min(Math.max(body.settings?.concurrency ?? 4, 1), 20); <<>> is an absent setting
clampConcurrency(c) == Min(Max(IF c = <<>> THEN 4 ELSE c[1], 1), 20)

isRunsPersistenceEnabled(e) ==
    IF e.DISABLE_RUNS_PERSIST = "1" THEN FALSE
    ELSE IF e.FORCE_RUNS_PERSIST = "1" THEN TRUE
    ELSE IF e.VERCEL = "1" THEN FALSE
    ELSE TRUE

(***************************************************************************)
(* Requests.                                                               *)
(***************************************************************************)
Case(id, task) == [id |-> id, task |-> task, context |-> <<>>]

CaseA == Case("c1", <<"q">>)
CaseB == Case("c2", <<"q">>)
CaseC == Case("c3", <<"q">>)
CaseD == Case("c4", <<"q">>)
CaseNoId == Case("", <<"q">>)
CaseNoTask == Case("c5", <<>>)

CaseLists ==
    {<<>>, <<CaseA>>, <<CaseA, CaseB>>, <<CaseA, CaseB, CaseC>>, <<CaseA, CaseB, CaseC, CaseD>>,
     <<CaseNoId>>, <<CaseA, CaseNoTask>>}

ModelLists ==
    {<<>>, <<" ">>, <<"openai:gpt-4o-mini">>,
     <<" openai:gpt-4o-mini ", "openai:gpt-4o-mini">>,
     <<"groq:llama-3.1-8b-instant", "openai:gpt-4o-mini">>,
     <<"openai:gpt-4o-mini", "acme:chat-1">>}

ConcurrencySettings == {<<>>, <<-3>>, <<0>>, <<2>>, <<25>>}

VerifierModes == {"local_only", "llm_auditor", "tinker"}

AuditorModels == {"", "acme:judge-1"}

NoReq ==
    [specYaml |-> "", cases |-> <<>>, models |-> <<>>, concurrency |-> <<>>,
     verifierMode |-> "", auditorModel |-> ""]

\* the number of jobs a request asks for
JobCount(r) == Len(r.cases) * Len(normalizeModels(r.models))

\* a request that asks for more than one job spells its fields in the plain way
PlainFields(r) ==
    /\ r.verifierMode # "tinker"
    /\ r.auditorModel = ""
    /\ r.concurrency \in {<<>>, <<0>>, <<2>>}
    /\ normalizeModels(r.models) = r.models

Requests ==
    {r \in [specYaml : YamlDocs, cases : CaseLists, models : ModelLists,
            concurrency : ConcurrencySettings, verifierMode : VerifierModes,
            auditorModel : AuditorModels] :
        /\ JobCount(r) <= MaxJobs
        /\ JobCount(r) > 1 => PlainFields(r)}

NoRun ==
    [spec |-> [id |-> "", rules |-> <<>>], cases |-> <<>>, modelIds |-> <<>>,
     concurrency |-> 0, verifierMode |-> "", auditorModelId |-> ""]

(***************************************************************************)
(* POST, lines 191-277: validation. outcome is "run" when the request      *)
(* reaches job creation, "reject" when a response is returned from the     *)
(* try block, "throw" when an exception reaches the outer catch.           *)
(***************************************************************************)
Rejected(status, error) ==
    [outcome |-> "reject", status |-> status, error |-> error, locals |-> NoRun]

Thrown(error) ==
    [outcome |-> "throw", status |-> 500, error |-> error, locals |-> NoRun]

Validate(body) ==
    LET loaded == yamlLoad(body.specYaml)
        specParsed == SpecSchemaParse(loaded.obj)
        rawModelIds == normalizeModels(body.models)
        verifierMode == normalizeVerifierMode(body.verifierMode)
        rawAuditor == trimId(body.auditorModel)
        auditorModelId == IF rawAuditor # "" THEN rawAuditor ELSE DEFAULT_AUDITOR_MODEL_ID
    IN  IF ~loaded.ok THEN Thrown("yaml")
        ELSE IF ~specParsed.success THEN Rejected(400, "Invalid spec YAML.")
        ELSE IF Len(body.cases) = 0 THEN Rejected(400, "Add at least one test case.")
        ELSE IF \E i \in 1..Len(body.cases) : ~CaseSchemaOk(body.cases[i])
             THEN Thrown("Invalid test case.")
        ELSE IF Len(rawModelIds) = 0 THEN Rejected(400, "No models selected.")
        ELSE IF \E i \in 1..Len(rawModelIds) : ~InRegistry(rawModelIds[i])
             THEN Rejected(400, "Model is not in registry.")
        ELSE IF verifierMode = "llm_auditor" /\ ~InRegistry(auditorModelId)
             THEN Rejected(400, "Auditor model is not in registry.")
        ELSE [outcome |-> "run", status |-> 200, error |-> "",
              locals |-> [spec |-> specParsed.data,
                          cases |-> body.cases,
                          modelIds |-> rawModelIds,
                          concurrency |-> clampConcurrency(body.concurrency),
                          verifierMode |-> verifierMode,
                          auditorModelId |-> auditorModelId]]

(***************************************************************************)
(* The concurrency gate: limit = pLimit(concurrency), jobs.push(limit(fn)). *)
(***************************************************************************)
\* limit(fn) for every (case, model) pair, cases outermost
MakeJobs(cases, modelIds) ==
    [k \in 1..(Len(cases) * Len(modelIds)) |->
        \* st: "queued", "gen" / "audit" (that chat call is in flight), "fulfilled", "rejected";
        \* gen, audit: how the call ended ("none", "failed", "returned")
        [c |-> ((k - 1) \div Len(modelIds)) + 1,
         model |-> modelIds[((k - 1) % Len(modelIds)) + 1],
         st |-> "queued",
         content |-> <<>>,
         raw |-> "",
         gen |-> "none",
         audit |-> "none",
         genCalls |-> 0,
         auditCalls |-> 0]]

\* the job body up to its first await: providerChat for the generation is in flight
StartJob(js, j) == [js EXCEPT ![j].st = "gen", ![j].genCalls = 1]

HasFreeSlot_OffByOne(active, concurrency) == active <= concurrency

HasFreeSlot(active, concurrency) == active < concurrency

\* one enqueue microtask: if (activeCount < concurrency && queue.size > 0) queue.dequeue()()
Admit(g) ==
    IF HasFreeSlot(g.active, g.concurrency) /\ g.queue # <<>>
    THEN [g EXCEPT !.jobs = StartJob(g.jobs, Head(g.queue)),
                   !.queue = Tail(g.queue),
                   !.active = g.active + 1]
    ELSE g

RECURSIVE AdmitTimes(_, _)
AdmitTimes(g, n) == IF n = 0 THEN g ELSE AdmitTimes(Admit(g), n - 1)

\* p-limit's next(), run when an admitted job settles
ReleaseSlot(g) ==
    LET freed == [g EXCEPT !.active = g.active - 1]
    IN  IF freed.queue # <<>>
        THEN [freed EXCEPT !.jobs = StartJob(freed.jobs, Head(freed.queue)),
                           !.queue = Tail(freed.queue),
                           !.active = freed.active + 1]
        ELSE freed

Gate == [jobs |-> jobs, queue |-> queue, active |-> activeCount, concurrency |-> run.concurrency]

\* job j settles as the record job (fulfilled or rejected) and gives its slot back
Settle(j, job) == ReleaseSlot([Gate EXCEPT !.jobs[j] = job])

(***************************************************************************)
(* The chat capability's possible results, as the job body reads them.     *)
(***************************************************************************)
\* choices[0].message.content of a generation
Responses ==
    {<<"I", "D", " ", "o", "k">>,        \* names the id, two words
     <<"n", "o">>,                        \* lacks the id
     <<"i", "d", " ", "a", " ", "b">>}    \* names the id, three words

GenResults ==
    {[ok |-> FALSE, content |-> <<>>]} \cup {[ok |-> TRUE, content |-> r] : r \in Responses}

\* choices[0].message.content of an audit
AuditReplies ==
    {"Sorry, I cannot audit this.",
     "null",
     "{}",
     "{pass:false,violations:[]}",
     "{pass:true,violations:[{rule_id:tone,severity:critical,evidence:x}]}",
     "{pass:false,violations:[{rule_id:tone,severity:blocker,evidence:x}]}",
     "{violations:[null]}"}

AuditResults ==
    {[ok |-> FALSE, raw |-> ""]} \cup {[ok |-> TRUE, raw |-> t] : t \in AuditReplies}

\* a run of several jobs draws each call's result from the failure and these replies
CoreResponses == {<<"I", "D", " ", "o", "k">>, <<"n", "o">>}

CoreAuditReplies ==
    {"Sorry, I cannot audit this.", "{pass:false,violations:[]}", "{violations:[null]}"}

GenResultsOf(js) ==
    IF Len(js) = 1 THEN GenResults
    ELSE {g \in GenResults : g.ok => g.content \in CoreResponses}

AuditResultsOf(js) ==
    IF Len(js) = 1 THEN AuditResults
    ELSE {a \in AuditResults : a.ok => a.raw \in CoreAuditReplies}

\* a parsed JSON value: kind "null" or "object"; passType is typeof parsed.pass;
\* violationsIsArray is Array.isArray(parsed.violations); an element of violations is
\* JSON null (isNull) or an object whose absent keys are "" / <<>>
JsonObject(passType, pass, isArray, items) ==
    [ok |-> TRUE, kind |-> "object", passType |-> passType, pass |-> pass,
     violationsIsArray |-> isArray, violations |-> items]

JsonItem(isNull, rule_id, severity, evidence) ==
    [isNull |-> isNull, rule_id |-> rule_id, severity |-> severity, evidence |-> evidence]

\* JSON.parse: ok = FALSE when it throws
JSONparse(raw) ==
    CASE raw = "null" ->
            [JsonObject("undefined", FALSE, FALSE, <<>>) EXCEPT !.kind = "null"]
      [] raw = "{}" -> JsonObject("undefined", FALSE, FALSE, <<>>)
      [] raw = "{pass:false,violations:[]}" -> JsonObject("boolean", FALSE, TRUE, <<>>)
      [] raw = "{pass:true,violations:[{rule_id:tone,severity:critical,evidence:x}]}" ->
            JsonObject("boolean", TRUE, TRUE, <<JsonItem(FALSE, "tone", "critical", <<"x">>)>>)
      [] raw = "{pass:false,violations:[{rule_id:tone,severity:blocker,evidence:x}]}" ->
            JsonObject("boolean", FALSE, TRUE, <<JsonItem(FALSE, "tone", "blocker", <<"x">>)>>)
      [] raw = "{violations:[null]}" ->
            JsonObject("undefined", FALSE, TRUE, <<JsonItem(TRUE, "", "", <<>>)>>)
      [] OTHER -> [JsonObject("undefined", FALSE, FALSE, <<>>) EXCEPT !.ok = FALSE]

(***************************************************************************)
(* The job body (route.ts, lines 292-438).                                 *)
(***************************************************************************)
JobError_Unknown(job, stage) ==
    [case_id |-> run.cases[job.c].id, model |-> job.model, stage |-> "unknown"]

JobError(job, stage) ==
    [case_id |-> run.cases[job.c].id, model |-> job.model, stage |-> stage]

\* lines 363-369: what the auditor's reply contributes; a parse failure, or a
\* TypeError on reading a property of null, is caught and leaves both unchanged
AuditVerdict_LocalOnly(localPass, raw) ==
    [verdictPass |-> localPass, auditViolations |-> <<>>]

AuditVerdict_StrictParse(localPass, raw) ==
    LET parsed == JSONparse(raw)
    IN  IF ~parsed.ok \/ parsed.kind = "null"
        THEN [verdictPass |-> FALSE, auditViolations |-> <<>>]
        ELSE [verdictPass |-> IF parsed.passType = "boolean" THEN parsed.pass ELSE localPass,
              auditViolations |-> IF parsed.violationsIsArray THEN parsed.violations ELSE <<>>]

AuditVerdict(localPass, raw) ==
    LET parsed == JSONparse(raw)
    IN  IF ~parsed.ok \/ parsed.kind = "null"
        THEN [verdictPass |-> localPass, auditViolations |-> <<>>]
        ELSE [verdictPass |-> IF parsed.passType = "boolean" THEN parsed.pass ELSE localPass,
              auditViolations |-> IF parsed.violationsIsArray THEN parsed.violations ELSE <<>>]

\* lines 396-401: the auditor's violation as recorded
AuditorViolation(v) ==
    [rule_id |-> IF v.rule_id = "" THEN "auditor" ELSE v.rule_id,
     severity |-> IF v.severity = "" THEN "medium" ELSE v.severity,
     evidence |-> v.evidence]

\* lines 394-402: reading v.rule_id of a null element throws a TypeError
AllViolationsThrows(auditViolations) ==
    \E i \in 1..Len(auditViolations) : auditViolations[i].isNull

AllViolations(localViolations, auditViolations) ==
    localViolations \o [i \in 1..Len(auditViolations) |-> AuditorViolation(auditViolations[i])]

\* lines 404-408: counts[sev]
CountSeverity(violations, sev) ==
    Cardinality({i \in 1..Len(violations) : violations[i].severity = sev})

ComplianceRow(job, verdictPass, allViolations) ==
    [case_id |-> run.cases[job.c].id,
     model |-> job.model,
     pass |-> IF verdictPass THEN 1 ELSE 0,
     critical |-> CountSeverity(allViolations, "critical"),
     high |-> CountSeverity(allViolations, "high"),
     medium |-> CountSeverity(allViolations, "medium"),
     low |-> CountSeverity(allViolations, "low")]

JsonlLine(job, verdictPass, allViolations) ==
    [case_id |-> run.cases[job.c].id,
     model |-> job.model,
     auditor_model |-> IF run.verifierMode = "llm_auditor" THEN run.auditorModelId ELSE "null",
     pass |-> verdictPass,
     response |-> job.content,
     violations |-> allViolations]

\* lines 385-437 and the job's settling: the row and the JSONL line are pushed, or the
\* mapping of the auditor's violations throws and the job's promise rejects
Emit(j, job, verdictPass, localViolations, auditViolations) ==
    IF AllViolationsThrows(auditViolations)
    THEN /\ UNCHANGED <<rows, violationsJsonl>>
         /\ LET g == Settle(j, [job EXCEPT !.st = "rejected"])
            IN  /\ jobs' = g.jobs
                /\ queue' = g.queue
                /\ activeCount' = g.active
    ELSE LET all == AllViolations(localViolations, auditViolations)
             g == Settle(j, [job EXCEPT !.st = "fulfilled"])
         IN  /\ rows' = Append(rows, ComplianceRow(job, verdictPass, all))
             /\ violationsJsonl' = Append(violationsJsonl, JsonlLine(job, verdictPass, all))
             /\ jobs' = g.jobs
             /\ queue' = g.queue
             /\ activeCount' = g.active

(***************************************************************************)
(* Paths (node:path, posix) as lib/storage.ts uses them. A path string is  *)
(* a sequence of characters; a resolved path is the sequence of its        *)
(* segments from the file system root.                                     *)
(***************************************************************************)
startsWith(s, prefix) ==
    Len(prefix) <= Len(s) /\ SubSeq(s, 1, Len(prefix)) = prefix

\* s.split("/")
RECURSIVE SplitPath(_)
SplitPath(s) ==
    IF \A i \in 1..Len(s) : s[i] # "/" THEN <<s>>
    ELSE LET k == CHOOSE i \in 1..Len(s) : s[i] = "/" /\ \A j \in 1..(i - 1) : s[j] # "/"
         IN  <<SubSeq(s, 1, k - 1)>> \o SplitPath(SubSeq(s, k + 1, Len(s)))

\* segments.join("/")
RECURSIVE JoinPath(_)
JoinPath(segs) ==
    IF segs = <<>> THEN <<>>
    ELSE IF Len(segs) = 1 THEN segs[1]
    ELSE segs[1] \o <<"/">> \o JoinPath(Tail(segs))

\* node's normalizeString: "" and "." are dropped, ".." removes the segment before it;
\* above the start of a relative path ".." is kept, above "/" it is dropped
RECURSIVE NormalizeSegments(_, _, _)
NormalizeSegments(todo, acc, isAbsolute) ==
    IF todo = <<>> THEN acc
    ELSE LET seg == Head(todo)
         IN  IF seg = <<>> \/ seg = <<".">>
             THEN NormalizeSegments(Tail(todo), acc, isAbsolute)
             ELSE IF seg = <<".", ".">>
             THEN IF acc # <<>> /\ acc[Len(acc)] # <<".", ".">>
                  THEN NormalizeSegments(Tail(todo), SubSeq(acc, 1, Len(acc) - 1), isAbsolute)
                  ELSE IF isAbsolute
                  THEN NormalizeSegments(Tail(todo), acc, isAbsolute)
                  ELSE NormalizeSegments(Tail(todo), Append(acc, seg), isAbsolute)
             ELSE NormalizeSegments(Tail(todo), Append(acc, seg), isAbsolute)

\* path.isAbsolute
isAbsolute(p) == p # <<>> /\ p[1] = "/"

\* path.posix.normalize
posixNormalize(p) ==
    IF p = <<>> THEN <<".">>
    ELSE LET abs == isAbsolute(p)
             trailing == p[Len(p)] = "/"
             body == JoinPath(NormalizeSegments(SplitPath(p), <<>>, abs))
         IN  IF body = <<>>
             THEN (IF abs THEN <<"/">> ELSE IF trailing THEN <<".", "/">> ELSE <<".">>)
             ELSE (IF abs THEN <<"/">> ELSE <<>>) \o body \o (IF trailing THEN <<"/">> ELSE <<>>)

\* the string of a resolved path
PathString(segs) == <<"/">> \o JoinPath(segs)

\* path.resolve(from, to) for a resolved from
pathResolve(from, to) ==
    IF isAbsolute(to) THEN NormalizeSegments(SplitPath(to), <<>>, TRUE)
    ELSE NormalizeSegments(from \o SplitPath(to), <<>>, TRUE)

\* path.join(dir, name) for a resolved dir
pathJoin(dir, name) == NormalizeSegments(dir \o SplitPath(name), <<>>, TRUE)

\* path.dirname and path.basename of a resolved path
dirname(p) == IF p = <<>> THEN <<>> ELSE SubSeq(p, 1, Len(p) - 1)

basename(p) == IF p = <<>> THEN <<>> ELSE p[Len(p)]

\* name.replace(/\\/g, "/")
slashes(n) == [i \in 1..Len(n) |-> IF n[i] = "\\" THEN "/" ELSE n[i]]

\* process.cwd() and RUNS_DIR = path.join(process.cwd(), "runs"), resolved
Cwd == << <<"w">> >>

RUNS_DIR == Cwd \o << <<"r">> >>

safeRunDir_NoPrefixCheck(runId) ==
    LET id == trim(runId)
        dir == pathResolve(RUNS_DIR, id)
    IN  IF id = <<>> THEN [ok |-> FALSE, dir |-> <<>>]
        ELSE [ok |-> TRUE, dir |-> dir]

\* safeRunDir: ok = FALSE when it throws
safeRunDir(runId) ==
    LET id == trim(runId)
        dir == pathResolve(RUNS_DIR, id)
        root == pathResolve(RUNS_DIR, <<>>)
    IN  IF id = <<>> THEN [ok |-> FALSE, dir |-> <<>>]
        ELSE IF ~startsWith(PathString(dir), PathString(root) \o <<"/">>)
        THEN [ok |-> FALSE, dir |-> <<>>]
        ELSE [ok |-> TRUE, dir |-> dir]

\* safeFileName: ok = FALSE when it throws
safeFileName(name) ==
    LET n == trim(name)
        normalized == slashes(n)
        cleaned == posixNormalize(normalized)
    IN  IF n = <<>> THEN [ok |-> FALSE, cleaned |-> <<>>]
        ELSE IF isAbsolute(n) THEN [ok |-> FALSE, cleaned |-> <<>>]
        ELSE IF cleaned = <<".">> \/ cleaned = <<".", ".">> THEN [ok |-> FALSE, cleaned |-> <<>>]
        ELSE IF startsWith(cleaned, <<".", ".", "/">>) \/ includes(cleaned, <<"/", ".", ".", "/">>)
        THEN [ok |-> FALSE, cleaned |-> <<>>]
        ELSE IF startsWith(cleaned, <<"/">>) THEN [ok |-> FALSE, cleaned |-> <<>>]
        ELSE [ok |-> TRUE, cleaned |-> cleaned]

\* the temporary file writeFileAtomic writes next to filePath
TmpPath(filePath) ==
    Append(dirname(filePath), <<".">> \o basename(filePath) \o <<".", "t", "m", "p">>)

\* a call of lib/storage.ts: step "idle" (none yet), "called", "writing" (directories
\* made, writeFileAtomic entered), "partial" (fs.writeFileSync under way), "written"
\* (fs.writeFileSync done), "returned" or "threw"; result, data and listed are what
\* deleteRun / runExists, readRunFile and listRuns return; touched is the set of resolved
\* paths the call created, wrote, read or removed; target is the file writeRunFile is
\* writing and prev its content when the call was made
NoCall ==
    [fn |-> "none", runId |-> <<>>, name |-> <<>>, content |-> "", step |-> "idle",
     result |-> FALSE, data |-> "", listed |-> {}, touched |-> {}, target |-> <<>>,
     prev |-> ""]

\* the directories and files under the file system root
EmptyFiles == [p \in {} |-> ""]

NoDisk == [dirs |-> {}, files |-> EmptyFiles]

\* the paths fs.mkdirSync(p, {recursive: true}) creates at most: p and its ancestors,
\* except RUNS_DIR and its ancestors, which exist after ensureRunsDir()
MkdirPaths(p) ==
    {SubSeq(p, 1, k) : k \in 1..Len(p)} \ {SubSeq(RUNS_DIR, 1, k) : k \in 0..Len(RUNS_DIR)}

\* the paths writeRunFile(runId, name, ...) creates, writes or renames, and whether it
\* throws on its arguments
writeRunFilePaths(runId, name) ==
    LET d == safeRunDir(runId)
        n == safeFileName(name)
        filePath == pathJoin(d.dir, n.cleaned)
    IN  IF ~d.ok THEN [threw |-> TRUE, touched |-> {}]
        ELSE IF ~n.ok THEN [threw |-> TRUE, touched |-> MkdirPaths(d.dir)]
        ELSE [threw |-> FALSE,
              touched |-> MkdirPaths(d.dir) \cup MkdirPaths(dirname(filePath))
                              \cup {TmpPath(filePath), filePath}]

\* the path readRunFile(runId, name) reads
readRunFilePaths(runId, name) ==
    LET d == safeRunDir(runId)
        n == safeFileName(name)
    IN  IF ~d.ok \/ ~n.ok THEN [threw |-> TRUE, touched |-> {}]
        ELSE [threw |-> FALSE, touched |-> {pathJoin(d.dir, n.cleaned)}]

\* the path deleteRun(runId) removes
deleteRunPaths(runId) ==
    LET d == safeRunDir(runId)
    IN  IF ~d.ok THEN [threw |-> TRUE, touched |-> {}]
        ELSE [threw |-> FALSE, touched |-> {d.dir}]

(***************************************************************************)
(* Run store as POST uses it (safeWriteRunFile -> writeRunFile).           *)
(***************************************************************************)
ArtifactNames == {"violations.jsonl", "compliance_table.csv", "report.html", "report.pdf"}

FileNames == ArtifactNames \cup {"meta.json"}

\* a file's content: kind "absent", "written" (an artifact) or the meta written ("seed",
\* "allFailed", "final", "fatal") with the artifacts it marks available
File(kind, available) == [kind |-> kind, available |-> available]

NoFiles == [n \in FileNames |-> File("absent", {})]

\* writeRunFile (lib/storage.ts, lines 94-115) does not consult the environment: the
\* write succeeds (ok) or throws and leaves the file as it was
WriteThrows(ok) == ~ok

writeRunFile(fs, name, content, ok) ==
    IF ok THEN [fs EXCEPT ![name] = content] ELSE fs

\* the outcomes of a write
WriteOutcomes == BOOLEAN

\* the outcomes of a write that POST attempts only when persistenceEnabled
GuardedWriteOutcomes == IF isRunsPersistenceEnabled(env) THEN BOOLEAN ELSE {TRUE}

guardedWriteRunFile(fs, name, content, ok) ==
    IF isRunsPersistenceEnabled(env) THEN writeRunFile(fs, name, content, ok) ELSE fs

NoBundle == [built |-> FALSE, rows |-> <<>>, totals |-> [totalCases |-> 0, totalRows |-> 0, byModel |-> <<>>]]

NoResponse ==
    [status |-> 0, error |-> "", details |-> <<>>, totals |-> NoBundle.totals,
     warnings |-> {}, available |-> {}, inline |-> {}]

(***************************************************************************)
(* POST, lines 166-443: seed meta, validation, job creation.               *)
(***************************************************************************)
Post ==
    /\ pc = "idle"
    /\ \E body \in Requests, seedOk \in WriteOutcomes :
        LET seeded == writeRunFile(files, "meta.json", File("seed", {}), seedOk)
            v == Validate(body)
        IN  /\ req' = body
            /\ CASE v.outcome = "run" ->
                      LET js == MakeJobs(v.locals.cases, v.locals.modelIds)
                          g == AdmitTimes([jobs |-> js,
                                           queue |-> [k \in 1..Len(js) |-> k],
                                           active |-> 0,
                                           concurrency |-> v.locals.concurrency], Len(js))
                      IN  /\ run' = v.locals
                          /\ jobs' = g.jobs
                          /\ queue' = g.queue
                          /\ activeCount' = g.active
                          /\ pc' = "awaitJobs"
                          /\ files' = seeded
                          /\ writeCalls' = <<"meta.json">>
                          /\ UNCHANGED response
                 [] v.outcome = "reject" ->
                      /\ pc' = "responded"
                      /\ response' = [NoResponse EXCEPT !.status = v.status, !.error = v.error]
                      /\ files' = seeded
                      /\ writeCalls' = <<"meta.json">>
                      /\ UNCHANGED <<run, jobs, queue, activeCount>>
                 [] v.outcome = "throw" ->
                      /\ pc' = "responded"
                      /\ response' = [NoResponse EXCEPT !.status = 500, !.error = v.error]
                      /\ \E fatalOk \in GuardedWriteOutcomes :
                            files' = guardedWriteRunFile(seeded, "meta.json", File("fatal", {}), fatalOk)
                      /\ writeCalls' = IF isRunsPersistenceEnabled(env)
                                       THEN <<"meta.json", "meta.json">>
                                       ELSE <<"meta.json">>
                      /\ UNCHANGED <<run, jobs, queue, activeCount>>
    /\ UNCHANGED <<env, rows, violationsJsonl, jobErrors, bundle, rendered, fnIn, fnOut, storeVars>>

(***************************************************************************)
(* A generation call returns or fails (lines 302-338).                     *)
(***************************************************************************)
GenReturn(j) ==
    /\ pc = "awaitJobs"
    /\ jobs[j].st = "gen"
    /\ \E gen \in GenResultsOf(jobs) :
        IF ~gen.ok
        THEN LET g == Settle(j, [jobs[j] EXCEPT !.st = "fulfilled", !.gen = "failed"])
             IN  /\ jobErrors' = Append(jobErrors, JobError(jobs[j], "generate"))
                 /\ jobs' = g.jobs
                 /\ queue' = g.queue
                 /\ activeCount' = g.active
                 /\ UNCHANGED <<rows, violationsJsonl>>
        ELSE LET job == [jobs[j] EXCEPT !.content = gen.content, !.gen = "returned"]
                 localViolations == localRuleChecks(run.spec, run.cases[job.c], gen.content)
                 verdictPass == summarizePass(localViolations)
             IN  IF run.verifierMode = "llm_auditor"
                 THEN /\ jobs' = [jobs EXCEPT ![j] = [job EXCEPT !.st = "audit", !.auditCalls = 1]]
                      /\ UNCHANGED <<queue, activeCount, rows, violationsJsonl, jobErrors>>
                 ELSE /\ Emit(j, job, verdictPass, localViolations, <<>>)
                      /\ UNCHANGED jobErrors
    /\ UNCHANGED <<env, pc, req, run, bundle, rendered, writeCalls, files, response, fnIn, fnOut, storeVars>>

(***************************************************************************)
(* An audit call returns or fails (lines 341-438).                         *)
(***************************************************************************)
AuditReturn(j) ==
    /\ pc = "awaitJobs"
    /\ jobs[j].st = "audit"
    /\ \E audit \in AuditResultsOf(jobs) :
        LET localViolations == localRuleChecks(run.spec, run.cases[jobs[j].c], jobs[j].content)
            localPass == summarizePass(localViolations)
        IN  IF ~audit.ok
            THEN /\ jobErrors' = Append(jobErrors, JobError(jobs[j], "audit"))
                 /\ Emit(j, [jobs[j] EXCEPT !.audit = "failed"], localPass, localViolations, <<>>)
            ELSE LET a == AuditVerdict(localPass, audit.raw)
                     job == [jobs[j] EXCEPT !.audit = "returned", !.raw = audit.raw]
                 IN  /\ Emit(j, job, a.verdictPass, localViolations, a.auditViolations)
                     /\ UNCHANGED jobErrors
    /\ UNCHANGED <<env, pc, req, run, bundle, rendered, writeCalls, files, response, fnIn, fnOut, storeVars>>

\* Promise.allSettled(jobs) has resolved: every job's promise is fulfilled or rejected
AllSettled_FailFast(js) ==
    \/ \A j \in 1..Len(js) : js[j].st \in {"fulfilled", "rejected"}
    \/ \E j \in 1..Len(js) : js[j].st = "fulfilled"

AllSettled(js) == \A j \in 1..Len(js) : js[j].st \in {"fulfilled", "rejected"}

(***************************************************************************)
(* Lines 447-485: no row was produced.                                     *)
(***************************************************************************)
ZeroRows_Never(rs) == FALSE

\* rows.length === 0
ZeroRows(rs) == Len(rs) = 0

\* POST has returned: its collectors and its gate no longer exist
ReturnFromPost ==
    /\ pc' = "responded"
    /\ run' = NoRun
    /\ jobs' = <<>>
    /\ queue' = <<>>
    /\ activeCount' = 0
    /\ rows' = <<>>
    /\ violationsJsonl' = <<>>
    /\ jobErrors' = <<>>
    /\ bundle' = NoBundle

AllFailed ==
    /\ pc = "awaitJobs"
    /\ AllSettled(jobs)
    /\ ZeroRows(rows)
    /\ \E metaOk \in WriteOutcomes :
        files' = writeRunFile(files, "meta.json", File("allFailed", {}), metaOk)
    /\ writeCalls' = Append(writeCalls, "meta.json")
    /\ response' = [NoResponse EXCEPT !.status = 500,
                                      !.error = "All model-runs failed.",
                                      !.details = jobErrors]
    /\ ReturnFromPost
    /\ UNCHANGED <<env, req, rendered, fnIn, fnOut, storeVars>>

(***************************************************************************)
(* Lines 487-524: totals and the bundle.                                   *)
(***************************************************************************)
\* the position of an identifier in localeCompare order. "U+00E9" stands for the
\* one-character string e-acute and "U+0065U+0301" for e followed by the combining
\* acute accent: different strings that are canonically equivalent, which
\* String.prototype.localeCompare must treat as identical
LocaleRank(id) ==
    CASE id = "c1" -> 1
      [] id = "c2" -> 2
      [] id = "c3" -> 3
      [] id = "c4" -> 4
      [] id = "U+00E9" -> 5
      [] id = "U+0065U+0301" -> 5
      [] id = "groq:llama-3.1-70b-versatile" -> 6
      [] id = "groq:llama-3.1-8b-instant" -> 7
      [] id = "openai:gpt-4.1-mini" -> 8
      [] id = "openai:gpt-4o-mini" -> 9
      [] OTHER -> 0

\* a.localeCompare(b): negative, zero or positive
localeCompare(a, b) ==
    IF LocaleRank(a) < LocaleRank(b) THEN -1
    ELSE IF LocaleRank(a) > LocaleRank(b) THEN 1
    ELSE 0

\* the comparator of route.ts, lines 520-522
compareRows(a, b) ==
    IF a.case_id = b.case_id
    THEN localeCompare(a.model, b.model)
    ELSE localeCompare(a.case_id, b.case_id)

\* the comparator of sortDetailedRows; String(x) of a string is x
compareDetailedRows(a, b) ==
    IF a.case_id = b.case_id
    THEN localeCompare(a.model, b.model)
    ELSE localeCompare(a.case_id, b.case_id)

\* the sign of x - y for the quotients x = an / ad and y = bn / bd, ad and bd positive
QuotientDiff(an, ad, bn, bd) ==
    IF an * bd > bn * ad THEN 1 ELSE IF an * bd < bn * ad THEN -1 ELSE 0

\* passRate = pass / total
PassRateDiff(a, b) == QuotientDiff(a.pass, a.total, b.pass, b.total)

\* avgLatency = avg_latency_ms = latencySum / total
LatencyDiff(a, b) == QuotientDiff(a.latencySum, a.total, b.latencySum, b.total)

CostDiff(a, b) == IF a.cost > b.cost THEN 1 ELSE IF a.cost < b.cost THEN -1 ELSE 0

\* x || y || z on numbers
OrElse(x, y, z) == IF x # 0 THEN x ELSE IF y # 0 THEN y ELSE z

\* the four comparators of scoredModels (toHTML) and of toPDF
compareBest(a, b) ==
    OrElse(PassRateDiff(b, a), LatencyDiff(a, b), localeCompare(a.model, b.model))

compareWorst_LowerLatency(a, b) ==
    OrElse(PassRateDiff(a, b), LatencyDiff(a, b), localeCompare(a.model, b.model))

compareWorst(a, b) ==
    OrElse(PassRateDiff(a, b), LatencyDiff(b, a), localeCompare(a.model, b.model))

compareFastest(a, b) ==
    OrElse(LatencyDiff(a, b), PassRateDiff(b, a), localeCompare(a.model, b.model))

compareCheapest(a, b) ==
    OrElse(CostDiff(a, b), PassRateDiff(b, a), localeCompare(a.model, b.model))

Compare(which, a, b) ==
    CASE which = "bundle" -> compareRows(a, b)
      [] which = "detailed" -> compareDetailedRows(a, b)
      [] which = "best" -> compareBest(a, b)
      [] which = "worst" -> compareWorst(a, b)
      [] which = "fastest" -> compareFastest(a, b)
      [] which = "cheapest" -> compareCheapest(a, b)

RECURSIVE Reverse(_)
Reverse(s) == IF s = <<>> THEN <<>> ELSE Append(Reverse(Tail(s)), Head(s))

\* Array.prototype.sort on an array shorter than 64 elements, as node's engine runs
\* it: the leading run is counted (and reversed when strictly descending), then every
\* later element is placed by binary insertion.
\* The length of the leading run, idx being the next element to look at.
RECURSIVE CountRun(_, _, _, _)
CountRun(which, rs, idx, isDescending) ==
    IF idx > Len(rs) THEN Len(rs)
    ELSE LET order == Compare(which, rs[idx], rs[idx - 1])
         IN  IF (isDescending /\ order >= 0) \/ (~isDescending /\ order < 0)
             THEN idx - 1
             ELSE CountRun(which, rs, idx + 1, isDescending)

\* the index at which pivot is inserted into the sorted rs[1..right-1]
RECURSIVE InsertionPoint(_, _, _, _, _)
InsertionPoint(which, rs, pivot, left, right) ==
    IF left >= right THEN left
    ELSE LET mid == left + ((right - left) \div 2)
         IN  IF Compare(which, pivot, rs[mid]) < 0
             THEN InsertionPoint(which, rs, pivot, left, mid)
             ELSE InsertionPoint(which, rs, pivot, mid + 1, right)

RECURSIVE BinaryInsertionSort(_, _, _)
BinaryInsertionSort(which, rs, start) ==
    IF start > Len(rs) THEN rs
    ELSE LET at == InsertionPoint(which, rs, rs[start], 1, start)
             placed == SubSeq(rs, 1, at - 1) \o <<rs[start]>> \o SubSeq(rs, at, start - 1)
                           \o SubSeq(rs, start + 1, Len(rs))
         IN  BinaryInsertionSort(which, placed, start + 1)

ArraySort(which, rs) ==
    IF Len(rs) < 2 THEN rs
    ELSE LET isDescending == Compare(which, rs[2], rs[1]) < 0
             runLength == CountRun(which, rs, 3, isDescending)
             run1 == IF isDescending
                     THEN Reverse(SubSeq(rs, 1, runLength)) \o SubSeq(rs, runLength + 1, Len(rs))
                     ELSE rs
         IN  BinaryInsertionSort(which, run1, runLength + 1)

\* rows.slice().sort(...) of lines 517-522
SortRows(rs) == ArraySort("bundle", rs)

\* the keys of byModelMap in insertion order
ModelsInOrder(rs) == Dedup([i \in 1..Len(rs) |-> rs[i].model], {})

ByModel_AllSelected(rs) ==
    LET ms == run.modelIds
    IN  [k \in 1..Len(ms) |->
            [model |-> ms[k],
             total |-> Cardinality({i \in 1..Len(rs) : rs[i].model = ms[k]}),
             pass |-> Cardinality({i \in 1..Len(rs) : rs[i].model = ms[k] /\ rs[i].pass = 1})]]

ByModel(rs) ==
    LET ms == ModelsInOrder(rs)
    IN  [k \in 1..Len(ms) |->
            [model |-> ms[k],
             total |-> Cardinality({i \in 1..Len(rs) : rs[i].model = ms[k]}),
             pass |-> Cardinality({i \in 1..Len(rs) : rs[i].model = ms[k] /\ rs[i].pass = 1})]]

Totals(rs) ==
    [totalCases |-> Len(run.cases), totalRows |-> Len(rs), byModel |-> ByModel(rs)]

RunBundle(rs) == [built |-> TRUE, rows |-> SortRows(rs), totals |-> Totals(rs)]

(***************************************************************************)
(* Lines 526-683: the artifacts, the final meta and the response.          *)
(* An artifact's outcome is "ok", "render" (producing it throws) or        *)
(* "write" (safeWriteRunFile throws); at most MaxFaults of the five steps  *)
(* (four artifacts, final meta) fail in one run.                           *)
(***************************************************************************)
ArtifactOutcomes(name) ==
    {"ok"} \cup (IF name = "violations.jsonl" THEN {} ELSE {"render"})
           \cup (IF isRunsPersistenceEnabled(env) THEN {"write"} ELSE {})

Reporter(name) ==
    CASE name = "compliance_table.csv" -> "toCSV"
      [] name = "report.html" -> "toHTML"
      [] name = "report.pdf" -> "toPDF"
      [] OTHER -> "join"

ArtifactOrder == <<"violations.jsonl", "compliance_table.csv", "report.html", "report.pdf">>

\* the primary artifact decides the response
ResponseStatus_AnyArtifact(available) == IF available # {} THEN 200 ELSE 500

ResponseStatus(available) == IF "report.html" \in available THEN 200 ELSE 500

\* lines 445-539, after the barrier: totals and the bundle are built from rows, the JSONL
\* content from violationsJsonl; neither collector, nor the gate, is read again
Aggregate ==
    /\ pc = "awaitJobs"
    /\ AllSettled(jobs)
    /\ ~ZeroRows(rows)
    /\ bundle' = RunBundle(rows)
    /\ pc' = "reporting"
    /\ jobs' = <<>>
    /\ queue' = <<>>
    /\ activeCount' = 0
    /\ rows' = <<>>
    /\ violationsJsonl' = <<>>
    /\ UNCHANGED <<env, req, run, jobErrors, rendered, writeCalls, files, response, fnIn, fnOut, storeVars>>

Report ==
    /\ pc = "reporting"
    /\ \E out \in [ArtifactNames -> {"ok", "render", "write"}], metaOk \in GuardedWriteOutcomes :
        /\ \A n \in ArtifactNames : out[n] \in ArtifactOutcomes(n)
        /\ Cardinality({n \in ArtifactNames : out[n] # "ok"}) + (IF metaOk THEN 0 ELSE 1)
              <= MaxFaults
        /\ LET persistenceEnabled == isRunsPersistenceEnabled(env)
               available == {n \in ArtifactNames : out[n] = "ok"}
               written == SelectSeq(ArtifactOrder, LAMBDA n : persistenceEnabled /\ out[n] # "render")
               artifactWarnings == ArtifactNames \ available
               warnings == artifactWarnings \cup
                           (IF persistenceEnabled /\ WriteThrows(metaOk) THEN {"meta.json"} ELSE {})
               status == ResponseStatus(available)
           IN  /\ rendered' = {Reporter(n) : n \in {m \in ArtifactNames : m # "violations.jsonl"}}
               /\ writeCalls' = writeCalls \o written \o
                                (IF persistenceEnabled THEN <<"meta.json">> ELSE <<>>)
               /\ files' = [n \in FileNames |->
                              IF n = "meta.json"
                              THEN (IF persistenceEnabled /\ metaOk
                                    THEN File("final", available) ELSE files[n])
                              ELSE IF persistenceEnabled /\ out[n] = "ok" THEN File("written", {})
                              ELSE files[n]]
               /\ response' =
                     [status |-> status,
                      error |-> IF status = 200 THEN ""
                                ELSE "Run completed but failed to generate report.html (primary artifact).",
                      details |-> jobErrors,
                      totals |-> bundle.totals,
                      warnings |-> warnings,
                      available |-> available,
                      inline |-> IF status = 200 /\ ~persistenceEnabled THEN available ELSE {}]
    /\ ReturnFromPost
    /\ UNCHANGED <<env, req, fnIn, fnOut, storeVars>>

(***************************************************************************)
(* Specification of the run endpoint.                                      *)
(***************************************************************************)
NoResult == [fn |-> "none", value |-> FALSE]

Envs ==
    {[DISABLE_RUNS_PERSIST |-> "", FORCE_RUNS_PERSIST |-> "", VERCEL |-> ""],
     [DISABLE_RUNS_PERSIST |-> "", FORCE_RUNS_PERSIST |-> "", VERCEL |-> "1"]}

Init ==
    /\ env \in Envs
    /\ pc = "idle"
    /\ req = NoReq
    /\ run = NoRun
    /\ jobs = <<>>
    /\ queue = <<>>
    /\ activeCount = 0
    /\ rows = <<>>
    /\ violationsJsonl = <<>>
    /\ jobErrors = <<>>
    /\ bundle = NoBundle
    /\ rendered = {}
    /\ writeCalls = <<>>
    /\ files = NoFiles
    /\ response = NoResponse
    /\ fnIn = <<>>
    /\ fnOut = NoResult
    /\ disk = NoDisk
    /\ call = NoCall

Next ==
    \/ Post
    \/ \E j \in 1..Len(jobs) : GenReturn(j)
    \/ \E j \in 1..Len(jobs) : AuditReturn(j)
    \/ AllFailed
    \/ Aggregate
    \/ Report

Spec == Init /\ [][Next]_vars

(***************************************************************************)
(* The run endpoint under fair scheduling: every chat call in flight       *)
(* eventually returns or fails, and a continuation of POST that can run    *)
(* eventually runs.                                                        *)
(***************************************************************************)
Fairness ==
    /\ \A j \in 1..MaxJobs : WF_vars(j <= Len(jobs) /\ GenReturn(j))
    /\ \A j \in 1..MaxJobs : WF_vars(j <= Len(jobs) /\ AuditReturn(j))
    /\ WF_vars(AllFailed)
    /\ WF_vars(Aggregate)
    /\ WF_vars(Report)

SpecLive == Init /\ [][Next]_vars /\ Fairness

(***************************************************************************)
(* Specification of summarizePass applied to bounded violation lists.      *)
(***************************************************************************)
SeverityLists == UNION {[1..n -> Severities] : n \in 0..MaxViolations}

ViolationLists ==
    {[i \in 1..Len(sevs) |-> [rule_id |-> "r", severity |-> sevs[i], evidence |-> <<>>]] :
        sevs \in SeverityLists}

InitPure ==
    /\ env = [DISABLE_RUNS_PERSIST |-> "", FORCE_RUNS_PERSIST |-> "", VERCEL |-> ""]
    /\ pc = "idle"
    /\ req = NoReq
    /\ run = NoRun
    /\ jobs = <<>>
    /\ queue = <<>>
    /\ activeCount = 0
    /\ rows = <<>>
    /\ violationsJsonl = <<>>
    /\ jobErrors = <<>>
    /\ bundle = NoBundle
    /\ rendered = {}
    /\ writeCalls = <<>>
    /\ files = NoFiles
    /\ response = NoResponse
    /\ fnIn \in ViolationLists
    /\ fnOut = NoResult
    /\ disk = NoDisk
    /\ call = NoCall

ApplySummarizePass ==
    /\ fnOut.fn = "none"
    /\ fnOut' = [fn |-> "summarizePass", value |-> summarizePass(fnIn)]
    /\ UNCHANGED <<runVars, fnIn, storeVars>>

NextPure == ApplySummarizePass

SpecPure == InitPure /\ [][NextPure]_vars

(***************************************************************************)
(* Specification of the reporters' row order (lib/reporters.ts): a list of *)
(* rows is sorted into bundle.rows and rendered as CSV, HTML and PDF.      *)
(***************************************************************************)
sortDetailedRows(rs) == ArraySort("detailed", rs)

Status(r) == IF r.pass = 1 THEN "PASS" ELSE "FAIL"

\* the records toCSV hands to Papa.unparse, in order
toCSV(rs) ==
    LET sorted == sortDetailedRows(rs)
    IN  [i \in 1..Len(sorted) |->
            [case_id |-> sorted[i].case_id, model |-> sorted[i].model,
             status |-> Status(sorted[i])]]

\* the rows of the "Detailed results" table of toHTML, in order
toHTMLTable(b) ==
    LET detailedRowsSorted == sortDetailedRows(b.rows)
    IN  [i \in 1..Len(detailedRowsSorted) |->
            [case_id |-> detailedRowsSorted[i].case_id, model |-> detailedRowsSorted[i].model,
             status |-> Status(detailedRowsSorted[i])]]

\* the rows toPDF draws in its table, in order
toPDFTable(b) ==
    LET rowsSorted == sortDetailedRows(b.rows)
    IN  [i \in 1..Len(rowsSorted) |->
            [case_id |-> rowsSorted[i].case_id, model |-> rowsSorted[i].model,
             status |-> Status(rowsSorted[i])]]

RowCaseIds == {"c1", "U+00E9", "U+0065U+0301"}

RowModels == {"groq:llama-3.1-8b-instant", "openai:gpt-4o-mini"}

ReportRows == [case_id : RowCaseIds, model : RowModels, pass : {0, 1}]

RowLists == UNION {[1..n -> ReportRows] : n \in 0..MaxRows}

InitRows ==
    /\ env = [DISABLE_RUNS_PERSIST |-> "", FORCE_RUNS_PERSIST |-> "", VERCEL |-> ""]
    /\ pc = "idle"
    /\ req = NoReq
    /\ run = NoRun
    /\ jobs = <<>>
    /\ queue = <<>>
    /\ activeCount = 0
    /\ rows = <<>>
    /\ violationsJsonl = <<>>
    /\ jobErrors = <<>>
    /\ bundle = NoBundle
    /\ rendered = {}
    /\ writeCalls = <<>>
    /\ files = NoFiles
    /\ response = NoResponse
    /\ fnIn \in RowLists
    /\ fnOut = NoResult
    /\ disk = NoDisk
    /\ call = NoCall

\* route.ts 514-600: the bundle is built from the rows and given to the reporters
ApplyReporters ==
    /\ fnOut.fn = "none"
    /\ LET b == [rows |-> SortRows(fnIn)]
       IN  fnOut' = [fn |-> "reporters",
                     value |-> [rows |-> b.rows, csv |-> toCSV(b.rows),
                                html |-> toHTMLTable(b), pdf |-> toPDFTable(b)]]
    /\ UNCHANGED <<runVars, fnIn, storeVars>>

NextRows == ApplyReporters

SpecRows == InitRows /\ [][NextRows]_vars

(***************************************************************************)
(* Specification of the path handling of lib/storage.ts: writeRunFile,     *)
(* readRunFile and deleteRun called with bounded runId and name strings.   *)
(***************************************************************************)
Strings(chars, n) == UNION {[1..k -> chars] : k \in 0..n}

RunIdStrings ==
    Strings({"a", ".", "/"}, MaxIdLen)
        \cup {<<" ">>, <<" ", "a", " ">>, <<".", ".", "/", "a">>, <<"a", "/", ".", ".", "/", "a">>,
              <<"/", "w", "/", "r", "/", "a">>, <<"/", "w", "/", "r">>, <<"/", "w", "/", "r", "a">>}

NameStrings ==
    Strings({"a", ".", "/", "\\"}, MaxNameLen)
        \cup {<<" ">>, <<"a", "/", ".", ".", "/", ".", ".", "/", "a">>,
              <<"a", "\\", ".", ".", "\\", ".", ".", "\\", ".", ".">>}

PathCalls ==
    {[NoCall EXCEPT !.fn = f, !.runId = r, !.name = n, !.step = "called"] :
        f \in {"writeRunFile", "readRunFile"}, r \in RunIdStrings, n \in NameStrings}
    \cup {[NoCall EXCEPT !.fn = "deleteRun", !.runId = r, !.step = "called"] : r \in RunIdStrings}

InitPath ==
    /\ env = [DISABLE_RUNS_PERSIST |-> "", FORCE_RUNS_PERSIST |-> "", VERCEL |-> ""]
    /\ pc = "idle"
    /\ req = NoReq
    /\ run = NoRun
    /\ jobs = <<>>
    /\ queue = <<>>
    /\ activeCount = 0
    /\ rows = <<>>
    /\ violationsJsonl = <<>>
    /\ jobErrors = <<>>
    /\ bundle = NoBundle
    /\ rendered = {}
    /\ writeCalls = <<>>
    /\ files = NoFiles
    /\ response = NoResponse
    /\ fnIn = <<>>
    /\ fnOut = NoResult
    /\ disk = NoDisk
    /\ call \in PathCalls

ResolvePaths ==
    /\ call.step = "called"
    /\ LET r == CASE call.fn = "writeRunFile" -> writeRunFilePaths(call.runId, call.name)
                   [] call.fn = "readRunFile" -> readRunFilePaths(call.runId, call.name)
                   [] OTHER -> deleteRunPaths(call.runId)
       IN  call' = [call EXCEPT !.step = IF r.threw THEN "threw" ELSE "returned",
                                !.touched = r.touched]
    /\ UNCHANGED <<runVars, fnIn, fnOut, disk>>

NextPath == ResolvePaths

SpecPath == InitPath /\ [][NextPath]_vars

(***************************************************************************)
(* Specification of the rule engine on a required_fields rule              *)
(* (lib/evaluator.ts, localRuleChecks).                                    *)
(***************************************************************************)
\* rule.fields entries: RuleSchema accepts any string, the empty one included
FieldStrings == {<<>>, <<"i", "d">>, <<"o", "k">>, <<"D">>}

FieldLists == UNION {[1..n -> FieldStrings] : n \in 0..MaxFields}

FieldResponses == Responses \cup {<<>>}

InitFields ==
    /\ env = [DISABLE_RUNS_PERSIST |-> "", FORCE_RUNS_PERSIST |-> "", VERCEL |-> ""]
    /\ pc = "idle"
    /\ req = NoReq
    /\ run = NoRun
    /\ jobs = <<>>
    /\ queue = <<>>
    /\ activeCount = 0
    /\ rows = <<>>
    /\ violationsJsonl = <<>>
    /\ jobErrors = <<>>
    /\ bundle = NoBundle
    /\ rendered = {}
    /\ writeCalls = <<>>
    /\ files = NoFiles
    /\ response = NoResponse
    /\ fnIn \in [response : FieldResponses, fields : FieldLists]
    /\ fnOut = NoResult
    /\ disk = NoDisk
    /\ call = NoCall

ApplyLocalRuleChecks ==
    /\ fnOut.fn = "none"
    /\ LET rule == [RawRule("needs", "required_fields", "high") EXCEPT !.fields = fnIn.fields]
           spec == [id |-> "s1", rules |-> <<rule>>]
           c == [id |-> "c1", task |-> <<"q">>, context |-> <<>>]
       IN  fnOut' = [fn |-> "localRuleChecks",
                     value |-> localRuleChecks(spec, c, fnIn.response)]
    /\ UNCHANGED <<runVars, fnIn, storeVars>>

NextFields == ApplyLocalRuleChecks

SpecFields == InitFields /\ [][NextFields]_vars

(***************************************************************************)
(* Specification of the rule engine on one rule of any type                *)
(* (lib/evaluator.ts, localRuleChecks).                                    *)
(***************************************************************************)
Triggers == {<<>>, <<"q">>, <<" ">>, <<"q", "x">>}

ForbiddenRules ==
    {[RawRule("polite", "forbidden_phrases", "high") EXCEPT !.phrases = p] : p \in FieldLists}

AdmitRules ==
    {[RawRule("admit", "must_admit_unknown", "critical") EXCEPT
         !.trigger = t, !.required_phrase_any = p] : t \in Triggers, p \in FieldLists}

WordRules ==
    {[RawRule("brief", "max_words", sev) EXCEPT !.max_words = m] :
         sev \in {"", "low"}, m \in 1..MaxWords}

RuleInputs == ForbiddenRules \cup AdmitRules \cup WordRules \cup {RuleUnknownType}

RuleCases ==
    {[id |-> "c1", task |-> <<"q">>, context |-> <<"x">>],
     [id |-> "c2", task |-> <<"Q">>, context |-> <<>>],
     [id |-> "c3", task |-> <<"a">>, context |-> <<>>]}

RuleResponses == Responses \cup {<<>>, <<" ", " ">>}

InitRules ==
    /\ env = [DISABLE_RUNS_PERSIST |-> "", FORCE_RUNS_PERSIST |-> "", VERCEL |-> ""]
    /\ pc = "idle"
    /\ req = NoReq
    /\ run = NoRun
    /\ jobs = <<>>
    /\ queue = <<>>
    /\ activeCount = 0
    /\ rows = <<>>
    /\ violationsJsonl = <<>>
    /\ jobErrors = <<>>
    /\ bundle = NoBundle
    /\ rendered = {}
    /\ writeCalls = <<>>
    /\ files = NoFiles
    /\ response = NoResponse
    /\ fnIn \in [rule : RuleInputs, c : RuleCases, response : RuleResponses]
    /\ fnOut = NoResult
    /\ disk = NoDisk
    /\ call = NoCall

\* localRuleChecks on a spec of the one rule, and on a spec that holds a rule of an
\* unrecognised type before and after it
ApplyRule ==
    /\ fnOut.fn = "none"
    /\ LET rule == RuleSchemaData(fnIn.rule)
           other == RuleSchemaData(RuleUnknownType)
       IN  fnOut' = [fn |-> "localRuleChecks",
                     value |-> localRuleChecks([id |-> "s1", rules |-> <<rule>>],
                                               fnIn.c, fnIn.response),
                     among |-> localRuleChecks([id |-> "s1", rules |-> <<other, rule, other>>],
                                               fnIn.c, fnIn.response)]
    /\ UNCHANGED <<runVars, fnIn, storeVars>>

NextRules == ApplyRule

SpecRules == InitRules /\ [][NextRules]_vars

(***************************************************************************)
(* Specification of the cost estimate (lib/ratecard.ts, route.ts 256 and   *)
(* 385-392). Rates are in millionths of a dollar per 1000 tokens, so a     *)
(* token costs its rate in billionths of a dollar; costs are in millionths.*)
(***************************************************************************)
ModelRate(model, input_per_1k, output_per_1k) ==
    [model |-> model, input_per_1k |-> input_per_1k, output_per_1k |-> output_per_1k]

DEFAULT_RATECARD ==
    <<ModelRate("tm-reasoning", 10000, 30000),
      ModelRate("gpt-oss-20b", 8000, 24000),
      ModelRate("deepseek-v3.1", 9000, 27000)>>

\* ModelRateSchema.safeParse(r).success
ModelRateSchemaOk(r) == r.model # "" /\ r.input_per_1k >= 0 /\ r.output_per_1k >= 0

\* rates: <<"absent">> when body.ratecard is not an array, else <<"array", entries>>
validateRatecard(rates) ==
    IF rates[1] # "array" THEN DEFAULT_RATECARD
    ELSE LET parsed == SelectSeq(rates[2], ModelRateSchemaOk)
         IN  IF Len(parsed) > 0 THEN parsed ELSE DEFAULT_RATECARD

\* (r) => r.model === model
RateMatches_IgnoreCase(r, model) ==
    r.model = model \/ (r.model = "OPENAI:GPT-4O-MINI" /\ model = "openai:gpt-4o-mini")

RateMatches(r, model) == r.model = model

\* Number(x.toFixed(6)) of a cost of nano billionths of a dollar, in millionths: the
\* nearest millionth (an exact half, decided by the double's value, does not arise
\* for the rates and counts used here)
ToFixed6(nano) == (nano + 500) \div 1000

estimateCostUSD(model, inputTokens, outputTokens, rates) ==
    LET found == {i \in 1..Len(rates) : RateMatches(rates[i], model)}
    IN  IF found = {} THEN 0
        ELSE LET rate == rates[CHOOSE i \in found : \A k \in found : i <= k]
                 inCost == inputTokens * rate.input_per_1k
                 outCost == outputTokens * rate.output_per_1k
             IN  ToFixed6(inCost + outCost)

RateEntries ==
    {ModelRate("openai:gpt-4o-mini", 300, 10000),
     ModelRate("openai:gpt-4o-mini", 10000, 0),
     ModelRate("openai:gpt-4o", 10000, 10000),
     ModelRate("OPENAI:GPT-4O-MINI", 10000, 300),
     ModelRate("", 10000, 10000)}

Ratecards ==
    {<<"absent">>} \cup {<<"array", e>> : e \in UNION {[1..n -> RateEntries] : n \in 0..MaxRates}}

\* usage.prompt_tokens / usage.completion_tokens of the generation and of the audit
Usages ==
    [genInTok : {0, 1, 1000}, genOutTok : {0, 1, 1000}, auditInTok : {0, 1}, auditOutTok : {0, 1}]

InitCost ==
    /\ env = [DISABLE_RUNS_PERSIST |-> "", FORCE_RUNS_PERSIST |-> "", VERCEL |-> ""]
    /\ pc = "idle"
    /\ req = NoReq
    /\ run = NoRun
    /\ jobs = <<>>
    /\ queue = <<>>
    /\ activeCount = 0
    /\ rows = <<>>
    /\ violationsJsonl = <<>>
    /\ jobErrors = <<>>
    /\ bundle = NoBundle
    /\ rendered = {}
    /\ writeCalls = <<>>
    /\ files = NoFiles
    /\ response = NoResponse
    /\ fnIn \in [modelId : {"openai:gpt-4o-mini", "groq:llama-3.1-8b-instant"},
                  ratecard : Ratecards, usage : Usages]
    /\ fnOut = NoResult
    /\ disk = NoDisk
    /\ call = NoCall

\* route.ts 256 and 385-392, 419-421: the row's token counts and cost
ApplyEstimateCost ==
    /\ fnOut.fn = "none"
    /\ LET rates == validateRatecard(fnIn.ratecard)
           u == fnIn.usage
       IN  fnOut' = [fn |-> "estimateCostUSD",
                     input_tokens |-> u.genInTok + u.auditInTok,
                     output_tokens |-> u.genOutTok + u.auditOutTok,
                     value |-> estimateCostUSD(fnIn.modelId, u.genInTok + u.auditInTok,
                                               u.genOutTok + u.auditOutTok, rates)]
    /\ UNCHANGED <<runVars, fnIn, storeVars>>

NextCost == ApplyEstimateCost

SpecCost == InitCost /\ [][NextCost]_vars

(***************************************************************************)
(* Specification of the report summaries' model selection                  *)
(* (lib/reporters.ts, scoredModels of toHTML and the same of toPDF).       *)
(***************************************************************************)
\* scored.slice().sort(...)[0] ?? null, as the model id ("" for null)
FirstSorted(which, scored) ==
    IF scored = <<>> THEN "" ELSE ArraySort(which, scored)[1].model

\* best, worst, fastest, cheapest of toHTML
scoredModels(byModel) ==
    [best |-> FirstSorted("best", byModel), worst |-> FirstSorted("worst", byModel),
     fastest |-> FirstSorted("fastest", byModel), cheapest |-> FirstSorted("cheapest", byModel)]

\* bestModel, worstModel, fastestModel, cheapestModel of toPDF
pdfScoredModels(byModel) ==
    [best |-> FirstSorted("best", byModel), worst |-> FirstSorted("worst", byModel),
     fastest |-> FirstSorted("fastest", byModel), cheapest |-> FirstSorted("cheapest", byModel)]

\* an entry of totals.byModel over two rows: passes, summed latency, summed cost
ModelTotals ==
    [model : {"groq:llama-3.1-8b-instant", "openai:gpt-4.1-mini", "openai:gpt-4o-mini"},
     total : {2}, pass : {0, 1, 2}, latencySum : {20, 40}, cost : {0, 5}]

\* totals.byModel: one entry per model, in any order
ByModelLists ==
    {l \in UNION {[1..n -> ModelTotals] : n \in 0..MaxModels} :
        \A i, j \in 1..Len(l) : i # j => l[i].model # l[j].model}

InitScore ==
    /\ env = [DISABLE_RUNS_PERSIST |-> "", FORCE_RUNS_PERSIST |-> "", VERCEL |-> ""]
    /\ pc = "idle"
    /\ req = NoReq
    /\ run = NoRun
    /\ jobs = <<>>
    /\ queue = <<>>
    /\ activeCount = 0
    /\ rows = <<>>
    /\ violationsJsonl = <<>>
    /\ jobErrors = <<>>
    /\ bundle = NoBundle
    /\ rendered = {}
    /\ writeCalls = <<>>
    /\ files = NoFiles
    /\ response = NoResponse
    /\ fnIn \in ByModelLists
    /\ fnOut = NoResult
    /\ disk = NoDisk
    /\ call = NoCall

ApplyScoredModels ==
    /\ fnOut.fn = "none"
    /\ fnOut' = [fn |-> "scoredModels", html |-> scoredModels(fnIn), pdf |-> pdfScoredModels(fnIn)]
    /\ UNCHANGED <<runVars, fnIn, storeVars>>

NextScore == ApplyScoredModels

SpecScore == InitScore /\ [][NextScore]_vars

(***************************************************************************)
(* Specification of the run store (lib/storage.ts) on a file system:       *)
(* writeRunFile step by step, deleteRun, runExists, listRuns, readRunFile. *)
(***************************************************************************)
\* fs.readFileSync's view of a path: its content, "ENOENT" or "EISDIR"
FileContent(d, p) ==
    IF p \in d.dirs THEN "EISDIR"
    ELSE IF p \in DOMAIN d.files THEN d.files[p]
    ELSE "ENOENT"

SetFile(fs, p, c) == [q \in DOMAIN fs \cup {p} |-> IF q = p THEN c ELSE fs[q]]

RemoveFile(fs, p) == [q \in DOMAIN fs \ {p} |-> fs[q]]

\* p is dir or lies beneath it
Under(p, dir) == Len(p) >= Len(dir) /\ SubSeq(p, 1, Len(dir)) = dir

ensureRunsDir(d) == [d EXCEPT !.dirs = @ \cup {RUNS_DIR}]

\* if (!fs.existsSync(p)) fs.mkdirSync(p, {recursive: true})
mkdirSync(d, p) == [d EXCEPT !.dirs = @ \cup MkdirPaths(p)]

\* fs.rmSync(dir, {recursive: true, force: true})
rmSync(d, dir) ==
    [dirs |-> {x \in d.dirs : ~Under(x, dir)},
     files |-> [q \in {x \in DOMAIN d.files : ~Under(x, dir)} |-> d.files[q]]]

runExists(d, runId) == safeRunDir(runId).ok /\ safeRunDir(runId).dir \in d.dirs

\* the run ids listRuns returns: the directories directly in RUNS_DIR
listRuns(d) == {x[Len(x)] : x \in {y \in d.dirs : Len(y) = Len(RUNS_DIR) + 1 /\ Under(y, RUNS_DIR)}}

readRunFile(d, runId, name) ==
    LET dir == safeRunDir(runId)
        n == safeFileName(name)
        content == FileContent(d, pathJoin(dir.dir, n.cleaned))
    IN  IF ~dir.ok \/ ~n.ok \/ content \in {"ENOENT", "EISDIR"}
        THEN [threw |-> TRUE, data |-> ""]
        ELSE [threw |-> FALSE, data |-> content]

StoreRunIds == {<<"a">>, <<"a", "/", "a">>, <<".", ".">>}

StoreNames == {<<"m">>, <<".", ".">>}

Contents == {"v1", "v2"}

\* no writeRunFile is between its steps
CallOver == call.step \in {"idle", "returned", "threw"}

NewCall(fn, runId, name) == [NoCall EXCEPT !.fn = fn, !.runId = runId, !.name = name]

\* writeFileAtomic writes the data to this path before renaming it to filePath
WritePath_InPlace(filePath) == filePath

WritePath(filePath) == TmpPath(filePath)

\* writeRunFile, lines 95-106: directories made, arguments checked
WriteRunFileStart ==
    /\ CallOver
    /\ \E runId \in StoreRunIds, name \in StoreNames, content \in Contents :
        LET c == [NewCall("writeRunFile", runId, name) EXCEPT !.content = content]
            d0 == ensureRunsDir(disk)
            dir == safeRunDir(runId)
            d1 == mkdirSync(d0, dir.dir)
            n == safeFileName(name)
            filePath == pathJoin(dir.dir, n.cleaned)
            d2 == mkdirSync(d1, dirname(filePath))
        IN  IF ~dir.ok THEN /\ disk' = d0
                            /\ call' = [c EXCEPT !.step = "threw"]
            ELSE IF ~n.ok THEN /\ disk' = d1
                               /\ call' = [c EXCEPT !.step = "threw"]
            ELSE /\ disk' = d2
                 /\ call' = [c EXCEPT !.step = "writing", !.target = filePath,
                                      !.prev = FileContent(disk, filePath)]
    /\ UNCHANGED <<runVars, fnIn, fnOut>>

\* fs.writeFileSync(tmp, data) has created the file and written part of the data
WriteFileBegins ==
    /\ call.step = "writing"
    /\ disk' = [disk EXCEPT !.files = SetFile(@, WritePath(call.target), "partial")]
    /\ call' = [call EXCEPT !.step = "partial"]
    /\ UNCHANGED <<runVars, fnIn, fnOut>>

\* fs.writeFileSync(tmp, data) completes
WriteFileCompletes ==
    /\ call.step = "partial"
    /\ disk' = [disk EXCEPT !.files = SetFile(@, WritePath(call.target), call.content)]
    /\ call' = [call EXCEPT !.step = "written"]
    /\ UNCHANGED <<runVars, fnIn, fnOut>>

\* fs.renameSync(tmp, filePath)
RenameIntoPlace ==
    /\ call.step = "written"
    /\ disk' = [disk EXCEPT !.files =
                    IF WritePath(call.target) = call.target THEN @
                    ELSE RemoveFile(SetFile(@, call.target, @[WritePath(call.target)]),
                                    WritePath(call.target))]
    /\ call' = [call EXCEPT !.step = "returned"]
    /\ UNCHANGED <<runVars, fnIn, fnOut>>

\* fs.writeFileSync or fs.renameSync throws (disk full, permissions): writeRunFile
\* rethrows; what is on the disk stays
WriteFails ==
    /\ call.step \in {"writing", "partial", "written"}
    /\ call' = [call EXCEPT !.step = "threw"]
    /\ UNCHANGED <<runVars, fnIn, fnOut, disk>>

\* deleteRun's early return: if (!fs.existsSync(dir)) return false
RunDirMissing_Never(d, dir) == FALSE

RunDirMissing(d, dir) == dir \notin d.dirs

DeleteRun ==
    /\ CallOver
    /\ \E runId \in StoreRunIds, rmOk \in BOOLEAN :
        LET c == NewCall("deleteRun", runId, <<>>)
            d0 == ensureRunsDir(disk)
            dir == safeRunDir(runId)
        IN  IF ~dir.ok THEN /\ disk' = d0
                            /\ call' = [c EXCEPT !.step = "threw"]
            ELSE IF RunDirMissing(d0, dir.dir)
            THEN /\ disk' = d0
                 /\ call' = [c EXCEPT !.step = "returned", !.result = FALSE]
            ELSE IF ~rmOk THEN /\ disk' = d0
                               /\ call' = [c EXCEPT !.step = "threw"]
            ELSE /\ disk' = rmSync(d0, dir.dir)
                 /\ call' = [c EXCEPT !.step = "returned",
                                      !.result = (dir.dir \notin rmSync(d0, dir.dir).dirs)]
    /\ UNCHANGED <<runVars, fnIn, fnOut>>

RunExists ==
    /\ CallOver
    /\ \E runId \in StoreRunIds :
        call' = [NewCall("runExists", runId, <<>>) EXCEPT !.step = "returned",
                                                         !.result = runExists(disk, runId)]
    /\ UNCHANGED <<runVars, fnIn, fnOut, disk>>

ListRuns ==
    /\ CallOver
    /\ disk' = ensureRunsDir(disk)
    /\ call' = [NewCall("listRuns", <<>>, <<>>) EXCEPT !.step = "returned",
                                                     !.listed = listRuns(ensureRunsDir(disk))]
    /\ UNCHANGED <<runVars, fnIn, fnOut>>

ReadRunFile ==
    /\ CallOver
    /\ \E runId \in StoreRunIds, name \in StoreNames :
        LET r == readRunFile(disk, runId, name)
        IN  call' = [NewCall("readRunFile", runId, name) EXCEPT
                        !.step = IF r.threw THEN "threw" ELSE "returned", !.data = r.data]
    /\ UNCHANGED <<runVars, fnIn, fnOut, disk>>

InitStore ==
    /\ env = [DISABLE_RUNS_PERSIST |-> "", FORCE_RUNS_PERSIST |-> "", VERCEL |-> ""]
    /\ pc = "idle"
    /\ req = NoReq
    /\ run = NoRun
    /\ jobs = <<>>
    /\ queue = <<>>
    /\ activeCount = 0
    /\ rows = <<>>
    /\ violationsJsonl = <<>>
    /\ jobErrors = <<>>
    /\ bundle = NoBundle
    /\ rendered = {}
    /\ writeCalls = <<>>
    /\ files = NoFiles
    /\ response = NoResponse
    /\ fnIn = <<>>
    /\ fnOut = NoResult
    /\ disk = NoDisk
    /\ call = NoCall

NextStore ==
    \/ WriteRunFileStart
    \/ WriteFileBegins
    \/ WriteFileCompletes
    \/ RenameIntoPlace
    \/ WriteFails
    \/ DeleteRun
    \/ RunExists
    \/ ListRuns
    \/ ReadRunFile

SpecStore == InitStore /\ [][NextStore]_vars

(***************************************************************************)
(* Properties.                                                             *)
(***************************************************************************)
\* a job admitted by the gate whose promise has not settled
InFlight == {j \in 1..Len(jobs) : jobs[j].st \in {"gen", "audit"}}

Unsettled == {j \in 1..Len(jobs) : jobs[j].st \in {"queued", "gen", "audit"}}

\* min(max(c ?? 4, 1), 20), case by case
ExpectedLimit(c) ==
    IF c = <<>> THEN 4
    ELSE IF c[1] < 1 THEN 1
    ELSE IF c[1] > 20 THEN 20
    ELSE c[1]

JobCaseId(j) == run.cases[jobs[j].c].id

RowsOf(j) ==
    {i \in 1..Len(rows) : rows[i].case_id = JobCaseId(j) /\ rows[i].model = jobs[j].model}

LinesOf(j) ==
    {i \in 1..Len(violationsJsonl) :
        /\ violationsJsonl[i].case_id = JobCaseId(j)
        /\ violationsJsonl[i].model = jobs[j].model}

ErrorsOf(j, stage) ==
    {i \in 1..Len(jobErrors) :
        /\ jobErrors[i].case_id = JobCaseId(j)
        /\ jobErrors[i].model = jobs[j].model
        /\ jobErrors[i].stage = stage}

StageErrors(stage) == {i \in 1..Len(jobErrors) : jobErrors[i].stage = stage}

\* the rule engine's violations for job j's response, and how many are critical
LocalOf(j) == localRuleChecks(run.spec, run.cases[jobs[j].c], jobs[j].content)

Criticals(violations) ==
    Cardinality({i \in 1..Len(violations) : violations[i].severity = "critical"})

\* C1: while jobs run, the jobs admitted and not yet settled number at most
\* L = min(max(settings.concurrency ?? 4, 1), 20), the limit the gate was built with;
\* with L = 1 at most one chat call is in flight
C1_GateBound ==
    pc = "awaitJobs" =>
        /\ run.concurrency = ExpectedLimit(req.concurrency)
        /\ Cardinality(InFlight) <= ExpectedLimit(req.concurrency)
        /\ activeCount = Cardinality(InFlight)

C1_Witness ==
    /\ pc = "awaitJobs"
    /\ ExpectedLimit(req.concurrency) = 1
    /\ Cardinality(InFlight) = 1
    /\ \E j \in 1..Len(jobs) : jobs[j].st = "queued"

\* C2: the steps that read rows and jobErrors (the zero-rows check, totals, bundle,
\* reports, meta) are taken only when no job is queued or running, and once they are
\* taken neither rows nor jobErrors grows
C2_Barrier ==
    [][ /\ (pc = "awaitJobs" /\ pc' # "awaitJobs") => Unsettled = {}
        /\ pc \in {"reporting", "responded"} =>
              /\ Len(rows') <= Len(rows)
              /\ Len(jobErrors') <= Len(jobErrors) ]_vars

C2_Witness ==
    /\ pc = "reporting"
    /\ \E i \in 1..Len(jobErrors) : jobErrors[i].stage = "generate"

\* C3: after all jobs have settled every job has either exactly one row and one JSONL
\* line, or exactly one JobError of stage "generate", never both and never neither
C3_EveryJobAccounted ==
    (pc = "awaitJobs" /\ Len(jobs) > 0 /\ Unsettled = {}) =>
        /\ Len(rows) = Len(violationsJsonl)
        /\ Len(rows) + Cardinality(StageErrors("generate")) = Len(jobs)
        /\ \A j \in 1..Len(jobs) :
              \/ /\ Cardinality(RowsOf(j)) = 1
                 /\ Cardinality(LinesOf(j)) = 1
                 /\ ErrorsOf(j, "generate") = {}
              \/ /\ RowsOf(j) = {}
                 /\ LinesOf(j) = {}
                 /\ Cardinality(ErrorsOf(j, "generate")) = 1

\* C4: a job whose generation call failed has exactly one JobError of stage "generate"
\* with its case id and model id, issued no audit call, has no row and no JSONL line;
\* it gave its slot back, so a queued job waits only while the gate is full
C4_GenerationFailure ==
    pc = "awaitJobs" =>
        /\ \A j \in 1..Len(jobs) :
              jobs[j].gen = "failed" =>
                 /\ jobs[j].st = "fulfilled"
                 /\ Cardinality(ErrorsOf(j, "generate")) = 1
                 /\ ErrorsOf(j, "audit") = {}
                 /\ jobs[j].auditCalls = 0
                 /\ RowsOf(j) = {}
                 /\ LinesOf(j) = {}
        /\ (\E j \in 1..Len(jobs) : jobs[j].st = "queued") =>
              Cardinality(InFlight) = ExpectedLimit(req.concurrency)

C4_Witness ==
    /\ pc = "awaitJobs"
    /\ Unsettled = {}
    /\ \E j, k \in 1..Len(jobs) :
          /\ jobs[j].gen = "failed"
          /\ jobs[k].gen = "returned"
          /\ Cardinality(RowsOf(k)) = 1

\* the row and the JSONL line of job j carry the rule engine's verdict and violations
RowIsLocal(j) ==
    /\ Cardinality(RowsOf(j)) = 1
    /\ Cardinality(LinesOf(j)) = 1
    /\ \A i \in LinesOf(j) :
          /\ violationsJsonl[i].violations = LocalOf(j)
          /\ violationsJsonl[i].pass = (Criticals(LocalOf(j)) = 0)
    /\ \A i \in RowsOf(j) :
          /\ rows[i].pass = (IF Criticals(LocalOf(j)) = 0 THEN 1 ELSE 0)
          /\ rows[i].critical = Criticals(LocalOf(j))
          /\ rows[i].critical + rows[i].high + rows[i].medium + rows[i].low = Len(LocalOf(j))

\* C5: in llm_auditor mode a reply that is not JSON leaves no JobError and the row is the
\* local verdict with the local violations; a failed auditor call leaves exactly one
\* JobError of stage "audit" and the same row
C5_AuditorFallback ==
    pc = "awaitJobs" =>
        \A j \in 1..Len(jobs) :
            /\ (jobs[j].audit = "returned" /\ ~JSONparse(jobs[j].raw).ok) =>
                  /\ jobs[j].st = "fulfilled"
                  /\ ErrorsOf(j, "audit") = {}
                  /\ ErrorsOf(j, "generate") = {}
                  /\ RowIsLocal(j)
            /\ jobs[j].audit = "failed" =>
                  /\ jobs[j].st = "fulfilled"
                  /\ Cardinality(ErrorsOf(j, "audit")) = 1
                  /\ ErrorsOf(j, "generate") = {}
                  /\ RowIsLocal(j)

C5_Witness ==
    /\ pc = "awaitJobs"
    /\ run.verifierMode = "llm_auditor"
    /\ \E j, k \in 1..Len(jobs) :
          /\ jobs[j].audit = "returned" /\ ~JSONparse(jobs[j].raw).ok
          /\ jobs[k].audit = "failed"
          /\ Criticals(LocalOf(j)) = 1
          /\ Criticals(LocalOf(k)) = 0

AuditorDecides(j) ==
    /\ jobs[j].audit = "returned"
    /\ JSONparse(jobs[j].raw).ok
    /\ JSONparse(jobs[j].raw).kind = "object"
    /\ JSONparse(jobs[j].raw).passType = "boolean"

C7_SummarizePass ==
    fnOut.fn = "summarizePass" =>
        /\ fnOut.value = FALSE <=> Criticals(fnIn) >= 1
        /\ fnIn = <<>> => fnOut.value
        /\ (\A i \in 1..Len(fnIn) : fnIn[i].severity \in {"high", "medium", "low"}) => fnOut.value

C7_Witness ==
    /\ fnOut.fn = "summarizePass"
    /\ fnOut.value
    /\ Len(fnIn) = MaxViolations
    /\ \E i \in 1..Len(fnIn) : fnIn[i].severity = "high"

C9_HtmlDecides ==
    [][ (pc = "reporting" /\ pc' = "responded") =>
          /\ response'.status \in {200, 500}
          /\ response'.status = 200 <=> "report.html" \in response'.available
          /\ \A n \in ArtifactNames : n \in response'.warnings <=> n \notin response'.available
          /\ isRunsPersistenceEnabled(env) =>
                \A n \in ArtifactNames :
                    n \in response'.available <=> files'[n].kind = "written"
          /\ (~isRunsPersistenceEnabled(env) /\ response'.status = 200) =>
                response'.inline = response'.available
          /\ files'["meta.json"].kind = "final" =>
                files'["meta.json"].available = response'.available ]_vars

C9_Witness ==
    /\ pc = "responded"
    /\ response.status = 500
    /\ response.available = ArtifactNames \ {"report.html"}
    /\ files["report.pdf"].kind = "written"

RegistryIds == {MODEL_REGISTRY[i] : i \in 1..Len(MODEL_REGISTRY)}

\* the request passes every validation
RequestValid(r) ==
    /\ yamlLoad(r.specYaml).ok
    /\ yamlLoad(r.specYaml).obj.id # ""
    /\ Len(yamlLoad(r.specYaml).obj.rules) >= 1
    /\ \A i \in 1..Len(yamlLoad(r.specYaml).obj.rules) :
          /\ yamlLoad(r.specYaml).obj.rules[i].id # ""
          /\ yamlLoad(r.specYaml).obj.rules[i].type \in RuleTypes
    /\ Len(r.cases) >= 1
    /\ \A i \in 1..Len(r.cases) : r.cases[i].id # "" /\ r.cases[i].task # <<>>
    /\ \E i \in 1..Len(r.models) : trimId(r.models[i]) # ""
    /\ \A i \in 1..Len(r.models) :
          trimId(r.models[i]) # "" => trimId(r.models[i]) \in RegistryIds
    /\ trimId(r.verifierMode) # "local_only" =>
          (IF trimId(r.auditorModel) = "" THEN DEFAULT_AUDITOR_MODEL_ID
           ELSE trimId(r.auditorModel)) \in RegistryIds

\* C10: jobs are scheduled, and chat calls issued, only for a request that passed every
\* validation: spec, cases, model ids and, in llm_auditor mode, the auditor model id
C10_ValidatedFirst ==
    ( \/ pc \in {"awaitJobs", "reporting"}
      \/ Len(jobs) > 0
      \/ response.status = 200
      \/ response.error = "All model-runs failed."
      \/ response.totals.totalRows > 0 ) => RequestValid(req)

C10_Witness ==
    /\ pc = "awaitJobs"
    /\ req.verifierMode = "tinker"
    /\ \E j \in 1..Len(jobs) : jobs[j].auditCalls = 1

\* C11 as stated: a request that fails a validation (unparsable or schema-failing spec
\* YAML, empty case list, a case with empty id or task, empty or unrecognized model ids,
\* unrecognized auditor model id in llm_auditor mode) is answered with a 4xx status,
\* never with a 5xx status
C11_ValidationIs4xx ==
    (pc = "responded" /\ ~RequestValid(req)) =>
        /\ response.status >= 400
        /\ response.status <= 499

RECURSIVE SumOfTotals(_)
SumOfTotals(entries) ==
    IF entries = <<>> THEN 0 ELSE Head(entries).total + SumOfTotals(Tail(entries))

\* C12: when the totals are built from a non-empty rows collector, byModel has exactly one
\* entry per model that has a row and none for a model without rows; an entry's total is
\* the number of rows of its model and its pass the number of those with pass = 1; the
\* totals sum to totalRows, the number of rows
C12_TotalsByModel ==
    [][ (pc = "awaitJobs" /\ pc' = "reporting") =>
          LET byModel == bundle'.totals.byModel
              RowsOfModel(m) == {i \in 1..Len(rows) : rows[i].model = m}
          IN  /\ Len(rows) >= 1
              /\ {byModel[k].model : k \in 1..Len(byModel)} = {rows[i].model : i \in 1..Len(rows)}
              /\ \A k, l \in 1..Len(byModel) : byModel[k].model = byModel[l].model => k = l
              /\ \A k \in 1..Len(byModel) :
                    /\ byModel[k].total = Cardinality(RowsOfModel(byModel[k].model))
                    /\ byModel[k].pass =
                          Cardinality({i \in RowsOfModel(byModel[k].model) : rows[i].pass = 1})
                    /\ 1 <= byModel[k].total
                    /\ 0 <= byModel[k].pass
                    /\ byModel[k].pass <= byModel[k].total
              /\ SumOfTotals(byModel) = bundle'.totals.totalRows
              /\ bundle'.totals.totalRows = Len(rows) ]_vars

C12_Witness ==
    /\ pc = "reporting"
    /\ Len(run.modelIds) = 2
    /\ Len(bundle.totals.byModel) = 1
    /\ bundle.totals.byModel[1].total = 1
    /\ \E i \in 1..Len(jobErrors) : jobErrors[i].stage = "generate"

\* the request asks for local_only verification
LocalOnly == trimId(req.verifierMode) = "local_only"

\* |cases| x |models| of the request
JobsAsked == Len(req.cases) * Len(normalizeModels(req.models))

\* C13: in local_only mode no audit call is issued, no JobError of stage "audit" is
\* recorded and the auditor model id is never the reason of a rejection; when every
\* generation call succeeded the run has |cases| x |models| rows and totals.totalRows
\* is that number
C13_LocalOnly ==
    LocalOnly =>
        /\ \A j \in 1..Len(jobs) : jobs[j].auditCalls = 0 /\ jobs[j].st # "audit"
        /\ StageErrors("audit") = {}
        /\ \A i \in 1..Len(response.details) : response.details[i].stage # "audit"
        /\ response.error # "Auditor model is not in registry."
        /\ (pc = "awaitJobs" /\ \A j \in 1..Len(jobs) : jobs[j].gen = "returned") =>
              /\ Len(jobs) = JobsAsked
              /\ Len(rows) = JobsAsked
              /\ Len(violationsJsonl) = JobsAsked
        /\ (pc = "reporting" /\ jobErrors = <<>>) =>
              /\ Len(bundle.rows) = JobsAsked
              /\ bundle.totals.totalRows = JobsAsked
        /\ (pc = "responded" /\ response.status = 200 /\ response.details = <<>>) =>
              response.totals.totalRows = JobsAsked

C13_Witness ==
    /\ LocalOnly
    /\ pc = "responded"
    /\ response.status = 200
    /\ response.details = <<>>
    /\ response.totals.totalRows = MaxJobs

\* every queued job is eventually admitted
EveryQueuedJobAdmitted ==
    \A j \in 1..MaxJobs :
        (pc = "awaitJobs" /\ j <= Len(jobs) /\ jobs[j].st = "queued")
            ~> (j <= Len(jobs) /\ jobs[j].st \in {"gen", "audit", "fulfilled", "rejected"})

\* every admitted job eventually settles
EveryAdmittedJobSettles ==
    \A j \in 1..MaxJobs :
        (pc = "awaitJobs" /\ j <= Len(jobs) /\ jobs[j].st \in {"gen", "audit"})
            ~> (j <= Len(jobs) /\ jobs[j].st \in {"fulfilled", "rejected"})

\* a run that started eventually returns a response
RunResponds == (pc = "awaitJobs") ~> (pc = "responded" /\ response.status # 0)

\* when no generation call failed, the bundle is built and holds |cases| x |models| rows
AllRowsWhenGenerationsSucceed ==
    /\ (pc = "reporting" /\ StageErrors("generate") = {}) => Len(bundle.rows) = JobsAsked
    /\ (pc = "awaitJobs" /\ Len(jobs) > 0 /\ Unsettled = {} /\ StageErrors("generate") = {}) =>
          Len(rows) = JobsAsked

\* C14 as stated: under fair scheduling every queued job is eventually admitted and
\* settles and the endpoint eventually responds; and when all generation calls succeed
\* all |cases| x |models| rows are in the bundle, whatever the completion order
C14_Liveness ==
    /\ EveryQueuedJobAdmitted
    /\ EveryAdmittedJobSettles
    /\ RunResponds
    /\ []AllRowsWhenGenerationsSucceed

\* the progress part alone
RunMakesProgress ==
    /\ EveryQueuedJobAdmitted
    /\ EveryAdmittedJobSettles
    /\ RunResponds

\* a resolved path strictly inside the runs root: below it, and not through ".."
StrictlyInsideRoot(p) ==
    /\ Len(p) > Len(RUNS_DIR)
    /\ SubSeq(p, 1, Len(RUNS_DIR)) = RUNS_DIR
    /\ \A i \in 1..Len(p) : p[i] \notin {<<>>, <<".">>, <<".", ".">>}

Observed(runId, name) ==
    LET r == readRunFile(disk, runId, name)
    IN  IF r.threw THEN "ENOENT" ELSE r.data

\* C16: at every moment during and after a writeRunFile call, failed ones included, a
\* reader of the target file observes the complete previous content (or the file's
\* absence) or the complete new content, never a partial file; after a failed write it
\* observes the previous content, after a successful one the new content.
C16_AtomicWrite ==
    (call.fn = "writeRunFile" /\ call.target # <<>>) =>
        /\ Observed(call.runId, call.name) \in {call.prev, call.content}
        /\ call.step = "threw" => Observed(call.runId, call.name) = call.prev
        /\ call.step = "returned" => Observed(call.runId, call.name) = call.content

\* a write that replaces "v1" by "v2" has failed with the temporary file half written
C16_Witness ==
    /\ call.fn = "writeRunFile"
    /\ call.step = "threw"
    /\ call.prev = "v1"
    /\ call.content = "v2"
    /\ FileContent(disk, TmpPath(call.target)) = "partial"

\* C17: while persistence is disabled, handling a run submission leaves every file of
\* the run store as it was (none is created or modified), and a 200 response carries
\* the available artifacts inline.
C17_NoWritesWhenDisabled ==
    ~isRunsPersistenceEnabled(env) =>
        /\ files = NoFiles
        /\ (pc = "responded" /\ response.status = 200) =>
              response.inline = response.available

\* the step is a deleteRun call and its result is right
DeleteResult ==
    call'.fn = "deleteRun" =>
        LET dir == safeRunDir(call'.runId)
        IN  /\ call'.step = "returned" =>
                  (call'.result <=> (dir.dir \in disk.dirs /\ dir.dir \notin disk'.dirs))
            /\ (dir.ok /\ dir.dir \notin disk.dirs) =>
                  (call'.step = "returned" /\ ~call'.result)
            /\ (call'.step = "returned" /\ call'.result) =>
                  /\ ~runExists(disk', call'.runId)
                  /\ call'.runId \notin listRuns(disk')
                  /\ \A name \in StoreNames : readRunFile(disk', call'.runId, name).threw
            /\ (call.fn = "deleteRun" /\ call.runId = call'.runId
                    /\ call.step = "returned" /\ call.result) =>
                  (call'.step = "returned" /\ ~call'.result)

SameRun(written, runId) == written = runId

RunOrBeneath(written, runId) == Under(safeRunDir(written).dir, safeRunDir(runId).dir)

\* a run whose directory is absent is not listed and not readable, and its directory
\* comes into being only by a writeRunFile call whose runId Recreates it
AbsentUntilWrite(Recreates(_, _)) ==
    \A runId \in StoreRunIds :
        (safeRunDir(runId).ok /\ ~runExists(disk, runId)) =>
            /\ runId \notin listRuns(disk)
            /\ \A name \in StoreNames : readRunFile(disk, runId, name).threw
            /\ runExists(disk', runId) =>
                  (call'.fn = "writeRunFile" /\ Recreates(call'.runId, runId))

\* right after deleteRun returned true the run does not exist, is not listed and cannot
\* be read, and the next call brings its directory back only if it is a writeRunFile
\* whose runId Recreates it
AfterTrueDelete(Recreates(_, _)) ==
    (call.fn = "deleteRun" /\ call.step = "returned" /\ call.result) =>
        /\ ~runExists(disk, call.runId)
        /\ call.runId \notin listRuns(disk)
        /\ \A name \in StoreNames : readRunFile(disk, call.runId, name).threw
        /\ runExists(disk', call.runId) =>
              (call'.fn = "writeRunFile" /\ Recreates(call'.runId, call.runId))

RowKeys(t) == [i \in 1..Len(t) |-> <<t[i].case_id, t[i].model>>]

\* ascending case_id and, within equal case_id, ascending model
SortedKeys(k) ==
    \A i, j \in 1..Len(k) :
        i < j => /\ localeCompare(k[i][1], k[j][1]) <= 0
                 /\ k[i][1] = k[j][1] => localeCompare(k[i][2], k[j][2]) <= 0

\* C19: for any list of rows, the CSV, the HTML table and the PDF table list the rows
\* in the order of bundle.rows, which is ascending case_id and, within equal case_id,
\* ascending model, whether the reporters are given the bundle or the list itself;
\* sorting the sorted list leaves it unchanged.
C19_OneSortedOrder ==
    fnOut.fn = "reporters" =>
        /\ RowKeys(fnOut.value.csv) = RowKeys(fnOut.value.rows)
        /\ RowKeys(fnOut.value.html) = RowKeys(fnOut.value.rows)
        /\ RowKeys(fnOut.value.pdf) = RowKeys(fnOut.value.rows)
        /\ RowKeys(toCSV(fnIn)) = RowKeys(fnOut.value.rows)
        /\ SortedKeys(RowKeys(fnOut.value.rows))
        /\ sortDetailedRows(fnOut.value.rows) = fnOut.value.rows

\* field is a case-insensitive substring of resp
IsSubstringInsensitive(resp, field) == includes(toLowerCase(resp), toLowerCase(field))

\* the positions of the configured fields that are not substrings of the response
MissingFields(resp, fields) ==
    {i \in 1..Len(fields) : ~IsSubstringInsensitive(resp, fields[i])}

FirstOf(S) == CHOOSE x \in S : \A y \in S : x <= y

\* C20: for a required_fields rule localRuleChecks emits exactly one violation iff some
\* configured field is not a case-insensitive substring of the response, none
\* otherwise, and the violation's evidence is the first such field in configured order.
C20_RequiredFields ==
    fnOut.fn = "localRuleChecks" =>
        LET missing == MissingFields(fnIn.response, fnIn.fields)
            v == fnOut.value
        IN  /\ Len(v) <= 1
            /\ Len(v) = 1 <=> missing # {}
            /\ (Len(v) = 1 /\ missing # {}) => v[1].evidence = fnIn.fields[FirstOf(missing)]

\* localRuleChecks has been applied to a rule of this type
Evaluated(type) == fnOut.fn = "localRuleChecks" /\ "among" \in DOMAIN fnOut /\ fnIn.rule.type = type

\* the positions of the configured phrases that are substrings of the response
PresentPhrases(resp, phrases) ==
    {i \in 1..Len(phrases) : IsSubstringInsensitive(resp, phrases[i])}

\* C21: for a forbidden_phrases rule localRuleChecks emits at most one violation,
\* exactly one iff some configured phrase is a case-insensitive substring of the
\* response, and its evidence is the first such phrase in configured order.
C21_ForbiddenPhrases ==
    Evaluated("forbidden_phrases") =>
        LET present == PresentPhrases(fnIn.response, fnIn.rule.phrases)
            v == fnOut.value
        IN  /\ Len(v) <= 1
            /\ Len(v) = 1 <=> present # {}
            /\ (Len(v) = 1 /\ present # {}) => v[1].evidence = fnIn.rule.phrases[FirstOf(present)]

\* the concatenation of case.task and case.context
TaskAndContext(c) == c.task \o c.context

\* C22: for a must_admit_unknown rule with a trigger localRuleChecks emits exactly one violation iff
\* the trigger occurs case-insensitively in the concatenation of case.task and
\* case.context, required_phrase_any is non-empty and none of its phrases occurs
\* case-insensitively in the response; otherwise it emits none.
C22_MustAdmitUnknown ==
    (Evaluated("must_admit_unknown") /\ fnIn.rule.trigger # <<>>) =>
        LET rule == fnIn.rule
            triggered == IsSubstringInsensitive(TaskAndContext(fnIn.c), rule.trigger)
            admitted == PresentPhrases(fnIn.response, rule.required_phrase_any) # {}
            v == fnOut.value
        IN  /\ Len(v) <= 1
            /\ Len(v) = 1 <=> (triggered /\ Len(rule.required_phrase_any) > 0 /\ ~admitted)

\* the whitespace-delimited non-empty tokens of a text, counted by where they end
TokenCount(text) ==
    Cardinality({i \in 1..Len(text) :
        ~IsSpace(text[i]) /\ (i = Len(text) \/ IsSpace(text[i + 1]))})

\* C23: for a max_words rule with limit m localRuleChecks emits exactly one violation,
\* of the rule's severity (medium when none is configured), iff the response has more
\* than m whitespace-delimited non-empty tokens; none for exactly m words; an empty or
\* whitespace-only response has 0 words.
C23_MaxWords ==
    Evaluated("max_words") =>
        LET rule == fnIn.rule
            v == fnOut.value
        IN  /\ Len(v) <= 1
            /\ Len(v) = 1 <=> TokenCount(fnIn.response) > rule.max_words
            /\ Len(v) = 1 =>
                  v[1].severity = (IF rule.severity = "" THEN "medium" ELSE rule.severity)
            /\ (\A i \in 1..Len(fnIn.response) : IsSpace(fnIn.response[i])) =>
                  (countWords(fnIn.response) = 0 /\ v = <<>>)

\* a three-word response against the limit 2 with no severity configured
C23_Witness ==
    /\ Evaluated("max_words")
    /\ fnIn.rule.max_words = 2
    /\ fnIn.rule.severity = ""
    /\ TokenCount(fnIn.response) = 3
    /\ Len(fnOut.value) = 1
    /\ fnOut.value[1].severity = "medium"

\* evaluated directly, a rule of an unrecognised type yields nothing, and around another
\* rule it leaves that rule's violations as they are
UnknownTypeSkipped ==
    (fnOut.fn = "localRuleChecks" /\ "among" \in DOMAIN fnOut) =>
        /\ fnOut.among = fnOut.value
        /\ fnIn.rule.type \notin RuleTypes => fnOut.value = <<>>

\* the submitted spec parses as YAML and is well-formed but for rules of unrecognised type
UnknownTypeSubmitted ==
    LET loaded == yamlLoad(req.specYaml)
    IN  /\ loaded.ok
        /\ loaded.obj.id # ""
        /\ Len(loaded.obj.rules) >= 1
        /\ \A i \in 1..Len(loaded.obj.rules) : loaded.obj.rules[i].id # ""
        /\ \E i \in 1..Len(loaded.obj.rules) : loaded.obj.rules[i].type \notin RuleTypes

\* C24: a rule of an unrecognised type is silently skipped; a run submitted with a spec
\* containing such a rule is not rejected as a validation failure.
C24_UnknownTypeAccepted ==
    (pc = "responded" /\ UnknownTypeSubmitted) =>
        ~(response.status = 400 /\ response.error = "Invalid spec YAML.")

\* the positions of the entries of the validated rate card whose model string is
\* identical to the job's model id
IdenticalEntries ==
    LET rates == validateRatecard(fnIn.ratecard)
    IN  {i \in 1..Len(rates) : rates[i].model = fnIn.modelId}

\* the cost formula on the first identical entry, in billionths of a dollar
FormulaCost ==
    LET rates == validateRatecard(fnIn.ratecard)
        rate == rates[FirstOf(IdenticalEntries)]
        u == fnIn.usage
    IN  (u.genInTok + u.auditInTok) * rate.input_per_1k
            + (u.genOutTok + u.auditOutTok) * rate.output_per_1k

\* C25 as stated: the cost is 0 when no entry's model is identical to the job's model
\* id, and otherwise exactly the formula's value on the first identical entry.
C25_CostIsFormula ==
    fnOut.fn = "estimateCostUSD" =>
        IF IdenticalEntries = {} THEN fnOut.value = 0
        ELSE fnOut.value * 1000 = FormulaCost

\* C25: the cost is 0 when no entry's model is identical to the job's model id, and
\* otherwise the formula's value on the first identical entry, over the summed
\* generation and audit tokens, rounded to the nearest millionth of a dollar.
C25_CostRounded ==
    fnOut.fn = "estimateCostUSD" =>
        IF IdenticalEntries = {} THEN fnOut.value = 0
        ELSE /\ fnOut.value * 1000 - FormulaCost <= 500
             /\ FormulaCost - fnOut.value * 1000 <= 500

\* two identical entries of which the first decides, a look-alike entry before them,
\* generation and audit tokens both counted, and a cost that needed rounding
C25_Witness ==
    /\ fnOut.fn = "estimateCostUSD"
    /\ fnIn.ratecard = <<"array", <<ModelRate("OPENAI:GPT-4O-MINI", 10000, 300),
                                     ModelRate("openai:gpt-4o-mini", 300, 10000)>> >>
    /\ fnIn.modelId = "openai:gpt-4o-mini"
    /\ fnIn.usage = [genInTok |-> 1000, genOutTok |-> 1, auditInTok |-> 1, auditOutTok |-> 1]
    /\ fnOut.value = 320

\* the call just made was rejected for its runId or its file name
RejectedCall ==
    /\ call'.fn \in {"writeRunFile", "readRunFile", "deleteRun"}
    /\ call'.step = "threw"
    /\ \/ ~safeRunDir(call'.runId).ok
       \/ call'.fn # "deleteRun" /\ ~safeFileName(call'.name).ok

\* C26: a writeRunFile, readRunFile or deleteRun call rejected for an invalid runId or
\* file name has touched nothing: the file system is exactly as it was.
C26_RejectedCallsTouchNothing == [][RejectedCall => disk' = disk]_vars

\* C27: with persistence enabled, no request that has been answered leaves a meta.json
\* that is still the seed: the final, the all-failed or the fatal meta has replaced it.
C27_SeedOverwritten ==
    (pc = "responded" /\ isRunsPersistenceEnabled(env)) => files["meta.json"].kind # "seed"

\* a request rejected by validation has been answered 400 and its meta.json is the seed
SeedLeftByRejection ==
    /\ pc = "responded"
    /\ isRunsPersistenceEnabled(env)
    /\ response.status = 400
    /\ files["meta.json"].kind = "seed"

\* the model of the entry of byModel that comes first when the entries are ranked by
\* the key k1, then k2, then model id; a key is the sign of "a ranks after b" ("" when
\* there is no entry)
Selected(byModel, Key1(_, _), Key2(_, _)) ==
    IF byModel = <<>> THEN ""
    ELSE LET Before(a, b) == OrElse(Key1(a, b), Key2(a, b), localeCompare(a.model, b.model)) < 0
             i == CHOOSE i \in 1..Len(byModel) :
                     \A j \in 1..Len(byModel) : j # i => Before(byModel[i], byModel[j])
         IN  byModel[i].model

HigherPassRate(a, b) == PassRateDiff(b, a)

LowerPassRate(a, b) == PassRateDiff(a, b)

LowerLatency(a, b) == LatencyDiff(a, b)

HigherLatency(a, b) == LatencyDiff(b, a)

LowerCost(a, b) == CostDiff(a, b)

\* the selections other than the worst-reliability model, and HTML agreeing with PDF
SelectionsButWorst ==
    /\ fnOut.html.best = Selected(fnIn, HigherPassRate, LowerLatency)
    /\ fnOut.html.fastest = Selected(fnIn, LowerLatency, HigherPassRate)
    /\ fnOut.html.cheapest = Selected(fnIn, LowerCost, HigherPassRate)
    /\ fnOut.pdf = fnOut.html

\* C28 as stated: best and worst reliability are selected with ties broken by lower
\* average latency, then model id; fastest and cheapest with ties broken by higher pass
\* rate, then id; HTML and PDF select the same four models.
C28_SelectionsLowerLatency ==
    fnOut.fn = "scoredModels" =>
        /\ SelectionsButWorst
        /\ fnOut.html.worst = Selected(fnIn, LowerPassRate, LowerLatency)

\* C28, amended: as stated, except that among the models of the lowest pass rate the
\* worst-reliability model is the one of HIGHER average latency (then model id).
C28_Selections ==
    fnOut.fn = "scoredModels" =>
        /\ SelectionsButWorst
        /\ fnOut.html.worst = Selected(fnIn, LowerPassRate, HigherLatency)

\* two models tie on pass rate and differ in average latency; the slower one is the
\* worst-reliability model and the quicker one the best
C28_Witness ==
    /\ fnOut.fn = "scoredModels"
    /\ Len(fnIn) = 2
    /\ PassRateDiff(fnIn[1], fnIn[2]) = 0
    /\ LatencyDiff(fnIn[1], fnIn[2]) < 0
    /\ fnOut.html.best = fnIn[1].model
    /\ fnOut.html.worst = fnIn[2].model
    /\ fnOut.pdf.worst = fnIn[2].model

\* a job emits its row and its JSONL evidence line in one step
EmitsRow == Len(rows') = Len(rows) + 1 /\ Len(violationsJsonl') = Len(violationsJsonl) + 1

EmittedRow == rows'[Len(rows')]

EmittedLine == violationsJsonl'[Len(violationsJsonl')]

\* each of the emitted row's four counts is the number of violations of that severity in
\* the emitted line
CountsPerSeverity ==
    [][EmitsRow =>
        /\ EmittedRow.critical = CountSeverity(EmittedLine.violations, "critical")
        /\ EmittedRow.high = CountSeverity(EmittedLine.violations, "high")
        /\ EmittedRow.medium = CountSeverity(EmittedLine.violations, "medium")
        /\ EmittedRow.low = CountSeverity(EmittedLine.violations, "low")]_vars

\* C29: the critical, high, medium and low counts of the row a job emits sum to the
\* number of violations in the job's JSONL evidence line, auditor-reported ones included.
C29_CountsSumToViolations ==
    [][EmitsRow =>
        EmittedRow.critical + EmittedRow.high + EmittedRow.medium + EmittedRow.low
            = Len(EmittedLine.violations)]_vars

\* a row is emitted whose evidence line holds an auditor-reported violation
AuditorViolationEmitted ==
    \E i \in 1..Len(violationsJsonl) :
        \E k \in 1..Len(violationsJsonl[i].violations) :
            violationsJsonl[i].violations[k].rule_id = "tone"

\* the rows collector had the jobs completed in the order they were created (the order
\* the gate admits them, which every limit allows): job 1's row, then job 2's, ...
RECURSIVE RowsInJobOrder(_)
RowsInJobOrder(j) ==
    IF j > Len(jobs) THEN <<>>
    ELSE SelectSeq(rows, LAMBDA r : r.case_id = JobCaseId(j) /\ r.model = jobs[j].model)
            \o RowsInJobOrder(j + 1)

BundleBuilt == ~bundle.built /\ bundle'.built

\* the rows of the bundle, and the entries of totals.byModel as a set, are those of the
\* run whose jobs complete in creation order
BundleUpToByModelOrder ==
    [][BundleBuilt =>
        LET inOrder == RunBundle(RowsInJobOrder(1))
            Entries(b) == {b.totals.byModel[k] : k \in 1..Len(b.totals.byModel)}
        IN  /\ bundle'.rows = inOrder.rows
            /\ bundle'.totals.totalRows = inOrder.totals.totalRows
            /\ Entries(bundle') = Entries(inOrder)]_vars

\* C30: whatever the order in which the jobs completed, the bundle handed to the
\* reporters (the order of its rows, the order and content of totals.byModel) is the
\* bundle of the run whose jobs complete in creation order.
C30_BundleIndependentOfCompletionOrder ==
    [][BundleBuilt => bundle' = RunBundle(RowsInJobOrder(1))]_vars

\* a bundle was built from rows collected out of creation order
CompletedOutOfOrder ==
    /\ pc = "awaitJobs"
    /\ AllSettled(jobs)
    /\ Len(rows) >= 2
    /\ rows # RowsInJobOrder(1)

====
